---- MODULE Spec2Model ----
(***************************************************************************)
(* A model of the trading control plane of trade-trader:                   *)
(*   - RiskEngine   (trade_trader/risk/__init__.py)                        *)
(*   - AlgoEngine   (trade_trader/trade/algorithm.py)                      *)
(*   - StopEngine   (trade_trader/risk/stop_engine.py)                     *)
(*   - BaseModule   (trade_trader/strategy/__init__.py)                    *)
(* Each engine has its own specification (SpecRisk, SpecAlgo, SpecStop,    *)
(* SpecModule); the variables of the other engines stay at their initial   *)
(* values.                                                                 *)
(***************************************************************************)
EXTENDS Integers, Sequences, FiniteSets, TLC

VARIABLES
    \* ---- RiskEngine ----
    now,          \* wall clock, seconds since Monday 00:00 local time
    order_count,  \* RiskEngine._order_count: code -> list of timestamps
    last,         \* the most recent check_order_before_submit call and its result
    accepted,     \* history: (code, time) of every call that passed, since the last reset
    call,         \* the input of the call to make (SpecGate)
    \* ---- AlgoEngine ----
    order,        \* the AlgoOrder
    frame,        \* the coroutine executing it: where it is suspended, and its locals
    aclock,       \* timezone.now() as the coroutine sees it, in seconds
    registered,   \* whether the order is in AlgoEngine.active_orders
    slices,       \* history: the volumes of the slices placed with success
    clean,        \* history: no placement failed, none was late, no cancel happened
    \* ---- StopEngine ----
    positions,    \* the Position rows: id -> direction, avg_open_price, position, code
    stop_orders,  \* StopEngine.stop_orders: position id -> StopOrder
    returned,     \* what the most recent call of the engine returned
    track,        \* history per stop order, since its registration
    replaced,     \* history: the last step registered over a triggered order
    \* ---- BaseModule ----
    initialized,    \* BaseModule.initialized
    channel_router, \* the channel patterns that have a handler
    crontab_router, \* cron expression -> its entry (the timer handle)
    scheduled,      \* the loop's timers that are armed: handle -> cron expression
    coroutines,     \* install()/uninstall() calls suspended at an await
    subscription,   \* sub_client: patterns subscribed, readers started, closed
    calls,          \* history: how many calls so far, what the last step was
    callback_fun_args, \* CallbackFunctionContainer.callback_fun_args, as items()
    tasks,          \* handler tasks dispatched and not yet ended
    \* ---- BaseModule._get_next ----
    cron,           \* the anchors, the cron iterator and the last result
    \* ---- ConditionalOrderEngine ----
    cond_orders,    \* the ConditionalOrder objects, by order_id
    engine_orders,  \* the order_ids in ConditionalOrderEngine.orders
    price_cache,    \* ConditionalOrderEngine.price_cache: code -> price
    cond_now,       \* timezone.now() as the engine reads it
    found,          \* what the last pass of monitoring_loop found and removed
    iceberg,        \* the frame of execute_order / _execute_iceberg_order
    \* ---- CallbackFunctionContainer ----
    methods,        \* the class body: method name -> the function's attributes
    constructed     \* whether the instance has been constructed

riskVars == <<now, order_count, last, accepted, call>>
algoVars == <<order, frame, aclock, registered, slices, clean>>
stopVars == <<positions, stop_orders, returned, track, replaced>>

moduleVars == <<initialized, channel_router, crontab_router, scheduled,
                coroutines, subscription, calls, callback_fun_args, tasks>>

cronVars == <<cron>>

condVars == <<cond_orders, engine_orders, price_cache, cond_now, found, iceberg>>

containerVars == <<methods, constructed>>

vars == <<riskVars, algoVars, stopVars, moduleVars, cronVars, condVars,
          containerVars>>

\* What an engine's steps leave alone: the variables of the other engines.
RiskOnly ==
    UNCHANGED <<algoVars, stopVars, moduleVars, cronVars, condVars,
                containerVars>>
AlgoOnly ==
    UNCHANGED <<riskVars, stopVars, moduleVars, cronVars, condVars,
                containerVars>>
StopOnly ==
    UNCHANGED <<riskVars, algoVars, moduleVars, cronVars, condVars,
                containerVars>>
ModuleOnly ==
    UNCHANGED <<riskVars, algoVars, stopVars, cronVars, condVars,
                containerVars>>
CronOnly ==
    UNCHANGED <<riskVars, algoVars, stopVars, moduleVars, condVars,
                containerVars>>
CondOnly ==
    UNCHANGED <<riskVars, algoVars, stopVars, moduleVars, cronVars,
                containerVars>>

ContainerOnly ==
    UNCHANGED <<riskVars, algoVars, stopVars, moduleVars, cronVars, condVars>>

\* An engine that a specification does not run stays as constructed.
\* no class body is being written and no container is constructed
ContainerIdle ==
    /\ methods = <<>>
    /\ constructed = FALSE

RiskIdle ==
    /\ now = 0
    /\ order_count = <<>>
    /\ last = [called |-> FALSE]
    /\ accepted = <<>>
    /\ call = [called |-> FALSE]

AlgoIdle ==
    /\ order = [status |-> "none"]
    /\ frame = [pc |-> "none"]
    /\ aclock = 0
    /\ registered = FALSE
    /\ slices = <<>>
    /\ clean = TRUE

\* BaseModule.__init__
ModuleNew ==
    /\ initialized = FALSE
    /\ channel_router = <<>>
    /\ crontab_router = <<>>
    /\ scheduled = <<>>
    /\ coroutines = [install |-> 0, punsubscribe |-> 0, close |-> 0]
    /\ subscription = [patterns |-> {}, readers |-> 0, closed |-> FALSE,
                       notices |-> 0]
    /\ tasks = 0
    /\ calls = [made |-> 0, raised |-> FALSE, late |-> {}, serial |-> TRUE,
                last |-> "none", func |-> "none", overlap |-> FALSE]

\* a module whose class declares no callback
ModuleIdle ==
    /\ ModuleNew
    /\ callback_fun_args = <<>>

CronIdle == cron = [calls |-> 0]

\* a conditional-order engine with no order, no price and no execution
CondNew ==
    /\ engine_orders = {}
    /\ price_cache = <<>>
    /\ cond_now = 0
    /\ found = [turn |-> FALSE, ids |-> {}, removed |-> {}]
    /\ iceberg = [pc |-> "idle"]

CondIdle ==
    /\ CondNew
    /\ cond_orders = <<>>

StopIdle ==
    /\ positions = <<>>
    /\ stop_orders = <<>>
    /\ returned = [ok |-> FALSE]
    /\ track = <<>>
    /\ replaced = FALSE

(***************************************************************************)
(*                              RiskEngine                                 *)
(***************************************************************************)

\* ---- bounds of the risk model ----
MaxOrderPerMinute == 2      \* RISK.max_order_per_minute as configured for the model
TickSeconds == 30           \* the clock advances in steps of this many seconds
MaxElapsed == 90            \* seconds the clock may advance beyond its start

\* ---- program constants ----
WindowSeconds == 60         \* datetime.timedelta(minutes=1)
DefaultMaxVolume == 500     \* max_market_order_volume when the instrument has none
MaxPositionRatioPct == 95   \* max_position_ratio = 0.95, in percent
PriceLimitBufferPermille == 1   \* price_limit_buffer = 0.001, in 1/1000

ERR_POSITION_LIMIT == "RISK_001"
ERR_MARGIN_INSUFFICIENT == "RISK_002"
ERR_PRICE_LIMIT == "RISK_003"
ERR_INSTRUMENT_STATUS == "RISK_004"
ERR_ORDER_SIZE == "RISK_005"
ERR_RATE_LIMIT == "RISK_006"
ERR_TRADING_TIME == "RISK_007"

\* RiskCheckResult(passed, message, code); the message is not modelled.
RiskCheckResult(passed, code) == [passed |-> passed, code |-> code]

\* ---- the entity store the engine reads (instruments, accounts, positions) ----
NoneInstrument == "None"
NoneAccount == "None"

Instrument ==
    [ IF |-> [code |-> "IF", is_trading |-> TRUE, night_trade |-> FALSE,
              has_limits |-> TRUE, up_limit |-> 1100, down_limit |-> 900,
              has_max_volume |-> TRUE, max_market_order_volume |-> 5,
              has_max_position |-> TRUE, max_position |-> 3,
              margin_per_hand |-> 10],
      rb |-> [code |-> "rb", is_trading |-> TRUE, night_trade |-> TRUE,
              has_limits |-> FALSE, up_limit |-> 0, down_limit |-> 0,
              has_max_volume |-> FALSE, max_market_order_volume |-> 0,
              has_max_position |-> FALSE, max_position |-> 0,
              margin_per_hand |-> 10],
      dl |-> [code |-> "dl", is_trading |-> FALSE, night_trade |-> FALSE,
              has_limits |-> FALSE, up_limit |-> 0, down_limit |-> 0,
              has_max_volume |-> TRUE, max_market_order_volume |-> 5,
              has_max_position |-> TRUE, max_position |-> 3,
              margin_per_hand |-> 10],
      cu |-> [code |-> "cu", is_trading |-> TRUE, night_trade |-> FALSE,
              has_limits |-> FALSE, up_limit |-> 0, down_limit |-> 0,
              has_max_volume |-> TRUE, max_market_order_volume |-> 5,
              has_max_position |-> TRUE, max_position |-> 3,
              margin_per_hand |-> 10],
      au |-> [code |-> "au", is_trading |-> TRUE, night_trade |-> TRUE,
              has_limits |-> TRUE, up_limit |-> 2001, down_limit |-> 1999,
              has_max_volume |-> FALSE, max_market_order_volume |-> 0,
              has_max_position |-> FALSE, max_position |-> 0,
              margin_per_hand |-> 10],
      ag |-> [code |-> "ag", is_trading |-> TRUE, night_trade |-> TRUE,
              has_limits |-> TRUE, up_limit |-> 1002, down_limit |-> 998,
              has_max_volume |-> FALSE, max_market_order_volume |-> 0,
              has_max_position |-> FALSE, max_position |-> 0,
              margin_per_hand |-> 10] ]

Account ==
    [ rich |-> [available |-> 1000, balance |-> 2000],
      poor |-> [available |-> 5, balance |-> 10],
      used |-> [available |-> 40, balance |-> 1000] ]

\* Position.objects.filter(account, instrument, direction).aggregate(Sum('position'))
Position(account, instrument, direction) ==
    IF instrument \in {"IF", "cu"} /\ direction = "LONG" THEN 3 ELSE 0

\* ---- the wall clock: now.weekday() (Monday is 0) and now.hour ----
weekday(t) == (t \div 86400) % 7
hour(t) == (t % 86400) \div 3600

\* Monday 10:00:00 and Friday 23:59:00
StartTimes == {36000, 431940}

\* ---- the steps of the pipeline ----
_check_instrument_status(instrument) ==
    IF instrument = NoneInstrument
    THEN RiskCheckResult(FALSE, ERR_INSTRUMENT_STATUS)
    ELSE IF ~Instrument[instrument].is_trading
    THEN RiskCheckResult(FALSE, ERR_INSTRUMENT_STATUS)
    ELSE RiskCheckResult(TRUE, "")

_check_trading_time(instrument, t) ==
    IF weekday(t) >= 5
    THEN RiskCheckResult(FALSE, ERR_TRADING_TIME)
    ELSE IF Instrument[instrument].night_trade
    THEN RiskCheckResult(TRUE, "")
    ELSE IF hour(t) < 8 \/ hour(t) >= 15
    THEN RiskCheckResult(FALSE, ERR_TRADING_TIME)
    ELSE RiskCheckResult(TRUE, "")

\* buffer = price * price_limit_buffer; the comparisons are scaled by 1000
_check_price_limit(instrument, direction, price) ==
    LET ins == Instrument[instrument]
        buffer1000 == price * PriceLimitBufferPermille
    IN  IF ~ins.has_limits
        THEN RiskCheckResult(TRUE, "")
        ELSE IF direction = "LONG"
        THEN IF 1000 * price >= 1000 * ins.up_limit - buffer1000
             THEN RiskCheckResult(FALSE, ERR_PRICE_LIMIT)
             ELSE RiskCheckResult(TRUE, "")
        ELSE IF 1000 * price <= 1000 * ins.down_limit + buffer1000
             THEN RiskCheckResult(FALSE, ERR_PRICE_LIMIT)
             ELSE RiskCheckResult(TRUE, "")

_check_order_size(instrument, volume) ==
    LET ins == Instrument[instrument]
        max_volume == IF ins.has_max_volume THEN ins.max_market_order_volume
                      ELSE DefaultMaxVolume
    IN  IF volume <= 0
        THEN RiskCheckResult(FALSE, ERR_ORDER_SIZE)
        ELSE IF volume > max_volume
        THEN RiskCheckResult(FALSE, ERR_ORDER_SIZE)
        ELSE RiskCheckResult(TRUE, "")

_check_position_limit(account, instrument, direction, volume) ==
    LET ins == Instrument[instrument]
        new_position == Position(account, instrument, direction) + volume
        available_margin == Account[account].available - (volume * ins.margin_per_hand)
    IN  IF ins.has_max_position /\ new_position > ins.max_position
        THEN RiskCheckResult(FALSE, ERR_POSITION_LIMIT)
        ELSE IF available_margin < 0
        THEN RiskCheckResult(FALSE, ERR_MARGIN_INSUFFICIENT)
        ELSE RiskCheckResult(TRUE, "")

\* usage_ratio = (balance - available) / balance > max_position_ratio, scaled by 100
_check_margin_sufficient(account, instrument, volume) ==
    LET acc == Account[account]
        required_margin == volume * Instrument[instrument].margin_per_hand
    IN  IF required_margin > acc.available
        THEN RiskCheckResult(FALSE, ERR_MARGIN_INSUFFICIENT)
        ELSE IF acc.balance > 0
                /\ 100 * (acc.balance - acc.available) > MaxPositionRatioPct * acc.balance
        THEN RiskCheckResult(FALSE, ERR_MARGIN_INSUFFICIENT)
        ELSE RiskCheckResult(TRUE, "")

\* ---- the rate-limit counter ----
\* A variant that keeps the orders that are exactly one window old.
_cleanup_keeps_cutoff(oc, t) ==
    LET cutoff == t - WindowSeconds
        kept(code) == SelectSeq(oc[code], LAMBDA x : x >= cutoff)
        live == {code \in DOMAIN oc : kept(code) /= <<>>}
    IN  [code \in live |-> kept(code)]

\* A variant that removes nothing.
_cleanup_old_orders_skipped(oc, t) == oc

\* _cleanup_old_orders: keeps t > cutoff and deletes the codes left with no order
_cleanup_old_orders(oc, t) ==
    LET cutoff == t - WindowSeconds
        kept(code) == SelectSeq(oc[code], LAMBDA x : x > cutoff)
        live == {code \in DOMAIN oc : kept(code) /= <<>>}
    IN  [code \in live |-> kept(code)]

\* A variant that records the order before it looks at the count.
_check_rate_limit_records_first(oc, instrument_code, t) ==
    LET cleaned == _cleanup_old_orders(oc, t)
        present == IF instrument_code \in DOMAIN cleaned THEN cleaned
                   ELSE [code \in DOMAIN cleaned \cup {instrument_code} |->
                           IF code = instrument_code THEN <<>> ELSE cleaned[code]]
        recorded == [present EXCEPT ![instrument_code] = Append(@, t)]
        recent_count == Len(present[instrument_code])
    IN  IF recent_count >= MaxOrderPerMinute
        THEN [result |-> RiskCheckResult(FALSE, ERR_RATE_LIMIT), oc |-> recorded]
        ELSE [result |-> RiskCheckResult(TRUE, ""), oc |-> recorded]

\* _check_rate_limit: the result and the counter it leaves
_check_rate_limit(oc, instrument_code, t) ==
    LET cleaned == _cleanup_old_orders(oc, t)
        present == IF instrument_code \in DOMAIN cleaned THEN cleaned
                   ELSE [code \in DOMAIN cleaned \cup {instrument_code} |->
                           IF code = instrument_code THEN <<>> ELSE cleaned[code]]
        recent_count == Len(present[instrument_code])
    IN  IF recent_count >= MaxOrderPerMinute
        THEN [result |-> RiskCheckResult(FALSE, ERR_RATE_LIMIT), oc |-> present]
        ELSE [result |-> RiskCheckResult(TRUE, ""),
              oc |-> [present EXCEPT ![instrument_code] = Append(@, t)]]

\* A variant that checks the order size before the trading time.
check_order_size_first(oc, inp, t) ==
    LET keep(r) == [result |-> r, oc |-> oc]
        r1 == _check_instrument_status(inp.instrument)
        r2 == _check_trading_time(inp.instrument, t)
        r3 == _check_price_limit(inp.instrument, inp.direction, inp.price)
        r4 == _check_order_size(inp.instrument, inp.volume)
        r5 == _check_position_limit(inp.account, inp.instrument, inp.direction, inp.volume)
        r6 == _check_margin_sufficient(inp.account, inp.instrument, inp.volume)
        r7 == _check_rate_limit(oc, inp.instrument, t)
    IN  IF inp.account = NoneAccount
        THEN keep(RiskCheckResult(FALSE, ERR_MARGIN_INSUFFICIENT))
        ELSE IF ~r1.passed THEN keep(r1)
        ELSE IF ~r4.passed THEN keep(r4)
        ELSE IF ~r2.passed THEN keep(r2)
        ELSE IF ~r3.passed THEN keep(r3)
        ELSE IF inp.offset = "Open" /\ ~r5.passed THEN keep(r5)
        ELSE IF inp.offset = "Open" /\ ~r6.passed THEN keep(r6)
        ELSE IF ~r7.result.passed THEN r7
        ELSE [result |-> RiskCheckResult(TRUE, ""), oc |-> r7.oc]

\* A variant that applies the position and margin checks to closing orders too.
check_order_before_submit_checks_closing(oc, inp, t) ==
    LET keep(r) == [result |-> r, oc |-> oc]
        r1 == _check_instrument_status(inp.instrument)
        r2 == _check_trading_time(inp.instrument, t)
        r3 == _check_price_limit(inp.instrument, inp.direction, inp.price)
        r4 == _check_order_size(inp.instrument, inp.volume)
        r5 == _check_position_limit(inp.account, inp.instrument, inp.direction, inp.volume)
        r6 == _check_margin_sufficient(inp.account, inp.instrument, inp.volume)
        r7 == _check_rate_limit(oc, inp.instrument, t)
    IN  IF inp.account = NoneAccount
        THEN keep(RiskCheckResult(FALSE, ERR_MARGIN_INSUFFICIENT))
        ELSE IF ~r1.passed THEN keep(r1)
        ELSE IF ~r2.passed THEN keep(r2)
        ELSE IF ~r3.passed THEN keep(r3)
        ELSE IF ~r4.passed THEN keep(r4)
        ELSE IF ~r5.passed THEN keep(r5)
        ELSE IF ~r6.passed THEN keep(r6)
        ELSE IF ~r7.result.passed THEN r7
        ELSE [result |-> RiskCheckResult(TRUE, ""), oc |-> r7.oc]

\* ---- check_order_before_submit: the result and the counter it leaves ----
\* inp.account is the account the call ends up with: the one passed in, or the
\* broker's first account, or None when none is passed and the broker has none.
check_order_before_submit(oc, inp, t) ==
    LET keep(r) == [result |-> r, oc |-> oc]
        r1 == _check_instrument_status(inp.instrument)
        r2 == _check_trading_time(inp.instrument, t)
        r3 == _check_price_limit(inp.instrument, inp.direction, inp.price)
        r4 == _check_order_size(inp.instrument, inp.volume)
        r5 == _check_position_limit(inp.account, inp.instrument, inp.direction, inp.volume)
        r6 == _check_margin_sufficient(inp.account, inp.instrument, inp.volume)
        r7 == _check_rate_limit(oc, inp.instrument, t)
    IN  IF inp.account = NoneAccount
        THEN keep(RiskCheckResult(FALSE, ERR_MARGIN_INSUFFICIENT))
        ELSE IF ~r1.passed THEN keep(r1)
        ELSE IF ~r2.passed THEN keep(r2)
        ELSE IF ~r3.passed THEN keep(r3)
        ELSE IF ~r4.passed THEN keep(r4)
        ELSE IF inp.offset = "Open" /\ ~r5.passed THEN keep(r5)
        ELSE IF inp.offset = "Open" /\ ~r6.passed THEN keep(r6)
        ELSE IF ~r7.result.passed THEN r7
        ELSE [result |-> RiskCheckResult(TRUE, ""), oc |-> r7.oc]

\* ---- inputs of a call ----
Instruments == {NoneInstrument, "IF", "rb", "dl", "cu"}
Accounts == {NoneAccount, "rich", "poor", "used"}
Directions == {"LONG", "SHORT"}
Offsets == {"Open", "Close"}
Prices == {900, 1000, 1100}
Volumes == {0, 1, 6}

OrderInputs ==
    [instrument : Instruments, direction : Directions, offset : Offsets,
     price : Prices, volume : Volumes, account : Accounts]

NoCall == [called |-> FALSE]

\* the record of a call: its input, its time, the counter before it and its result
CallRecord(inp, t, before, result) ==
    [called |-> TRUE, inp |-> inp, time |-> t, before |-> before, result |-> result]

(***************************************************************************)
(* SpecRisk: sequences of calls as the clock advances.                     *)
(***************************************************************************)

\* The orders submitted over time: closing orders of an account with funds,
\* at a price away from the limits.
SeqInputs ==
    {inp \in OrderInputs :
        /\ inp.instrument \in {"IF", "rb"}
        /\ inp.account = "rich"
        /\ inp.direction = "SHORT"
        /\ inp.offset = "Close"
        /\ inp.price = 1000
        /\ inp.volume \in {1, 6}}

InitRisk ==
    /\ ContainerIdle
    /\ now \in StartTimes
    /\ order_count = <<>>
    /\ last = NoCall
    /\ accepted = <<>>
    /\ call = NoCall
    /\ AlgoIdle
    /\ StopIdle
    /\ ModuleIdle
    /\ CronIdle
    /\ CondIdle

Submit(inp) ==
    LET out == check_order_before_submit(order_count, inp, now)
    IN  /\ order_count' = out.oc
        /\ last' = CallRecord(inp, now, order_count, out.result)
        /\ accepted' = IF out.result.passed
                       THEN Append(accepted, [code |-> inp.instrument, time |-> now])
                       ELSE accepted
        /\ UNCHANGED <<now, call>>
    /\ RiskOnly
        /\ RiskOnly

reset_rate_limit ==
    /\ order_count /= <<>>
    /\ order_count' = <<>>
    /\ accepted' = <<>>
    /\ last' = NoCall
    /\ UNCHANGED <<now, call>>
    /\ RiskOnly

Tick ==
    /\ \E start \in StartTimes :
          /\ start <= now
          /\ now + TickSeconds <= start + MaxElapsed
    /\ now' = now + TickSeconds
    /\ UNCHANGED <<order_count, last, accepted, call>>
    /\ RiskOnly

NextRisk ==
    \/ \E inp \in SeqInputs : Submit(inp)
    \/ reset_rate_limit
    \/ Tick

SpecRisk == InitRisk /\ [][NextRisk]_vars

(***************************************************************************)
(* SpecGate: one call of check_order_before_submit, for every input, at    *)
(* every kind of time and on every kind of counter earlier calls can have  *)
(* left.                                                                   *)
(***************************************************************************)

\* Monday 07:59:59, 08:00:00, 14:59:59, 15:00:00 and Saturday 10:00:00
GateTimes == {28799, 28800, 53999, 54000, 468000}

\* ages (seconds) of the timestamps earlier calls have left in the counter
GateAges == {59, 60}

RECURSIVE SortedSeqs(_, _)
\* the non-decreasing sequences over S of length 1..n
SortedSeqs(S, n) ==
    IF n = 0 THEN {}
    ELSE LET shorter == SortedSeqs(S, n - 1)
         IN  {<<x>> : x \in S} \cup shorter
             \cup {Append(q, x) : q \in shorter, x \in S}

IsSorted(q) == \A i \in 1..(Len(q) - 1) : q[i] <= q[i + 1]

\* A timestamp is in the counter only if a call passed at that time.
CouldPassAt(code, t) ==
    /\ _check_instrument_status(code).passed
    /\ _check_trading_time(code, t).passed

GateCounters(t) ==
    LET stamps == {t - a : a \in GateAges}
        lists(code) == {q \in SortedSeqs(stamps, MaxOrderPerMinute) :
                          /\ IsSorted(q)
                          /\ \A i \in 1..Len(q) : CouldPassAt(code, q[i])}
        codes == {"IF", "rb"}
    IN  UNION {[D -> UNION {lists(c) : c \in D}] : D \in SUBSET codes}

InitGate ==
    /\ ContainerIdle
    /\ now \in GateTimes
    /\ order_count \in {oc \in GateCounters(now) :
                          \A c \in DOMAIN oc : \A i \in 1..Len(oc[c]) : CouldPassAt(c, oc[c][i])}
    /\ call \in OrderInputs
    /\ last = NoCall
    /\ accepted = <<>>
    /\ AlgoIdle
    /\ StopIdle
    /\ ModuleIdle
    /\ CronIdle
    /\ CondIdle

GateSubmit ==
    LET out == check_order_before_submit(order_count, call, now)
    IN  /\ ~last.called
        /\ order_count' = out.oc
        /\ last' = CallRecord(call, now, order_count, out.result)
        /\ UNCHANGED <<now, call, accepted>>
        /\ RiskOnly

NextGate == GateSubmit

SpecGate == InitGate /\ [][NextGate]_vars

(***************************************************************************)
(* Claims on one call (SpecGate)                                           *)
(***************************************************************************)

\* The steps in the order the claim gives, each with the codes it may return.
StepOrder == <<"status", "time", "price", "size", "position", "margin", "rate">>

StepCodes ==
    [ status |-> {ERR_INSTRUMENT_STATUS}, time |-> {ERR_TRADING_TIME},
      price |-> {ERR_PRICE_LIMIT}, size |-> {ERR_ORDER_SIZE},
      position |-> {ERR_POSITION_LIMIT, ERR_MARGIN_INSUFFICIENT},
      margin |-> {ERR_MARGIN_INSUFFICIENT}, rate |-> {ERR_RATE_LIMIT} ]

StepApplies(step, inp) == step \in {"position", "margin"} => inp.offset = "Open"

\* The position and margin steps read the account: they have no outcome without one.
StepDefined(step, inp) == step \in {"position", "margin"} => inp.account /= NoneAccount

StepResult(step, rec) ==
    LET inp == rec.inp
    IN  CASE step = "status" -> _check_instrument_status(inp.instrument)
          [] step = "time" -> _check_trading_time(inp.instrument, rec.time)
          [] step = "price" -> _check_price_limit(inp.instrument, inp.direction, inp.price)
          [] step = "size" -> _check_order_size(inp.instrument, inp.volume)
          [] step = "position" ->
                _check_position_limit(inp.account, inp.instrument, inp.direction, inp.volume)
          [] step = "margin" ->
                _check_margin_sufficient(inp.account, inp.instrument, inp.volume)
          [] step = "rate" -> _check_rate_limit(rec.before, inp.instrument, rec.time).result

RECURSIVE FirstFailingFrom(_, _)
\* The index of the first applicable step that fails, from step i on, each step
\* looked at only when the steps before it passed; 0 when none fails, -1 when
\* a step that has no outcome is reached first.
FirstFailingFrom(rec, i) ==
    IF i > Len(StepOrder) THEN 0
    ELSE IF ~StepApplies(StepOrder[i], rec.inp) THEN FirstFailingFrom(rec, i + 1)
    ELSE IF ~StepDefined(StepOrder[i], rec.inp) THEN -1
    ELSE IF ~StepResult(StepOrder[i], rec).passed THEN i
    ELSE FirstFailingFrom(rec, i + 1)

FirstFailing(rec) == FirstFailingFrom(rec, 1)

\* The claim's statement for one recorded call.
CarriesFirstFailure(rec) ==
    LET k == FirstFailing(rec)
    IN  /\ k > 0 => /\ ~rec.result.passed
                    /\ rec.result.code = StepResult(StepOrder[k], rec).code
                    /\ rec.result.code \in StepCodes[StepOrder[k]]
        /\ rec.result.passed => k = 0

Occurrences(oc, c, x) ==
    IF c \in DOMAIN oc THEN Cardinality({i \in 1..Len(oc[c]) : oc[c][i] = x}) ELSE 0

\* A timestamp occurs more often in the list of c after than before.
TimestampAdded(before, after, c) ==
    /\ c \in DOMAIN after
    /\ \E i \in 1..Len(after[c]) :
          Occurrences(after, c, after[c][i]) > Occurrences(before, c, after[c][i])

\* C2: a call adds a timestamp to an instrument's rate-limit list only when it
\* returns passed=True (and then to the list of its own instrument only): a
\* call rejected by any step, the rate-limit step included, adds none.
C2_OnlyPassedCallsRecord ==
    last.called =>
        \A c \in DOMAIN order_count :
            TimestampAdded(last.before, order_count, c) =>
                last.result.passed /\ c = last.inp.instrument

\* A call rejected by the rate-limit step on a full list: the list of its
\* instrument is as it was.
C2_Witness ==
    /\ last.called
    /\ last.result = RiskCheckResult(FALSE, ERR_RATE_LIMIT)
    /\ Len(last.before[last.inp.instrument]) = MaxOrderPerMinute
    /\ order_count[last.inp.instrument] = last.before[last.inp.instrument]

\* The call has an account and passes the steps before the position check.
ReachesPositionCheck(rec) ==
    /\ rec.inp.account /= NoneAccount
    /\ \A step \in {"status", "time", "price", "size"} : StepResult(step, rec).passed

ExceedsMaxPosition(inp) ==
    /\ Instrument[inp.instrument].has_max_position
    /\ Position(inp.account, inp.instrument, inp.direction) + inp.volume
           > Instrument[inp.instrument].max_position

ShortOfMargin(inp) ==
    Account[inp.account].available
        - inp.volume * Instrument[inp.instrument].margin_per_hand < 0

\* C17: the position-limit and margin checks apply only to opening orders.
\* Of the orders that reach them (an account, the earlier steps passed), an
\* opening order with current position + volume > max_position is rejected
\* with the position-limit code; an opening order within the position limit
\* with available - volume * margin_per_hand < 0 is rejected with the
\* margin-insufficient code; a closing order is decided by the rate-limit
\* step alone, whatever the position and the available funds are.
C17_PositionAndMarginOnlyWhenOpening ==
    (last.called /\ ReachesPositionCheck(last)) =>
        IF last.inp.offset = "Open"
        THEN /\ ExceedsMaxPosition(last.inp)
                   => last.result = RiskCheckResult(FALSE, ERR_POSITION_LIMIT)
             /\ (~ExceedsMaxPosition(last.inp) /\ ShortOfMargin(last.inp))
                   => last.result = RiskCheckResult(FALSE, ERR_MARGIN_INSUFFICIENT)
        ELSE /\ last.result.code \notin {ERR_POSITION_LIMIT, ERR_MARGIN_INSUFFICIENT}
             /\ last.result = StepResult("rate", last)

\* A closing order that exceeds the position limit and the available funds
\* is accepted, and the same order opening is rejected with the
\* position-limit code; the instrument has no price limits.
C17_Witness ==
    /\ last.called
    /\ last.inp.instrument = "cu"
    /\ ReachesPositionCheck(last)
    /\ ExceedsMaxPosition(last.inp)
    /\ ShortOfMargin(last.inp)
    /\ last.inp.offset = "Close"
    /\ last.result = RiskCheckResult(TRUE, "")

\* An opening order within the position limit and short of margin, rejected
\* with the margin-insufficient code.
C17_MarginWitness ==
    /\ last.called
    /\ last.inp.offset = "Open"
    /\ ReachesPositionCheck(last)
    /\ ~ExceedsMaxPosition(last.inp)
    /\ ShortOfMargin(last.inp)
    /\ last.result = RiskCheckResult(FALSE, ERR_MARGIN_INSUFFICIENT)

\* An opening order over the position limit, rejected with its code.
C17_PositionWitness ==
    /\ last.called
    /\ last.inp.offset = "Open"
    /\ last.inp.instrument = "cu"
    /\ ReachesPositionCheck(last)
    /\ ExceedsMaxPosition(last.inp)
    /\ last.result = RiskCheckResult(FALSE, ERR_POSITION_LIMIT)

(***************************************************************************)
(* SpecPrice: one call of _check_price_limit, for prices on both sides of  *)
(* the buffered limits and for the number types of its operands.           *)
(***************************************************************************)

\* price is declared Decimal; price_limit_buffer is a float (config.getfloat).
\* The limits are whatever get_up_limit() / get_down_limit() return.
NumberTypes == {"Decimal", "float"}

LimitPrices == {899, 900, 901, 1000, 1098, 1099, 1100, 2000}

PriceInputs ==
    [instrument : {"IF", "rb", "au", "ag"}, direction : Directions,
     price : LimitPrices, price_type : NumberTypes, limit_type : NumberTypes]

PriceReturned(result) == [raised |-> FALSE, result |-> result]
TypeErrorRaised == [raised |-> TRUE, exception |-> "TypeError"]

\* The call with the types of its operands: price * self.price_limit_buffer
\* is Decimal * float for a Decimal price, and up_limit - buffer (or
\* down_limit + buffer) is Decimal -/+ float for a Decimal limit; Python
\* raises TypeError for both.  Between floats the arithmetic is that of
\* _check_price_limit.
_check_price_limit_call(inp) ==
    IF ~Instrument[inp.instrument].has_limits
    THEN PriceReturned(RiskCheckResult(TRUE, ""))
    ELSE IF inp.price_type = "Decimal"
    THEN TypeErrorRaised
    ELSE IF inp.limit_type = "Decimal"
    THEN TypeErrorRaised
    ELSE PriceReturned(_check_price_limit(inp.instrument, inp.direction, inp.price))

InitPrice ==
    /\ ContainerIdle
    /\ now \in StartTimes
    /\ order_count = <<>>
    /\ accepted = <<>>
    /\ call \in PriceInputs
    /\ last = NoCall
    /\ AlgoIdle
    /\ StopIdle
    /\ ModuleIdle
    /\ CronIdle
    /\ CondIdle

PriceLimitCheck ==
    /\ ~last.called
    /\ last' = [called |-> TRUE, inp |-> call,
                outcome |-> _check_price_limit_call(call)]
    /\ UNCHANGED <<now, order_count, accepted, call>>
    /\ RiskOnly

NextPrice == PriceLimitCheck

SpecPrice == InitPrice /\ [][NextPrice]_vars

\* the claim's conditions, scaled by 1000 for a buffer ratio in 1/1000
AtOrAboveBufferedUpper(inp) ==
    1000 * inp.price >= 1000 * Instrument[inp.instrument].up_limit
                          - inp.price * PriceLimitBufferPermille

AtOrBelowBufferedLower(inp) ==
    1000 * inp.price <= 1000 * Instrument[inp.instrument].down_limit
                          + inp.price * PriceLimitBufferPermille

\* C16: when both limits are available, the price-limit step rejects a buy
\* exactly when price >= upper_limit - price * buffer_ratio and a sell
\* exactly when price <= lower_limit + price * buffer_ratio, and accepts
\* otherwise (with buffer_ratio 0.001, a buy at upper - 0.0005 * price is
\* rejected and a buy at upper - 0.002 * price is accepted).
C16_RejectsExactlyInsideBuffer ==
    (last.called /\ Instrument[last.inp.instrument].has_limits) =>
        /\ ~last.outcome.raised
        /\ ~last.outcome.result.passed
               <=> IF last.inp.direction = "LONG"
                   THEN AtOrAboveBufferedUpper(last.inp)
                   ELSE AtOrBelowBufferedLower(last.inp)
        /\ ~last.outcome.result.passed
               => last.outcome.result.code = ERR_PRICE_LIMIT

\* C16 for operands the arithmetic accepts (a float price, float limits).
C16_RejectsExactlyInsideBufferForFloats ==
    (/\ last.called
     /\ Instrument[last.inp.instrument].has_limits
     /\ last.inp.price_type = "float"
     /\ last.inp.limit_type = "float") =>
        /\ ~last.outcome.raised
        /\ ~last.outcome.result.passed
               <=> IF last.inp.direction = "LONG"
                   THEN AtOrAboveBufferedUpper(last.inp)
                   ELSE AtOrBelowBufferedLower(last.inp)

\* A buy of a Decimal price well inside the limits ends in TypeError.
C16_DecimalPriceRaises ==
    /\ last.called
    /\ last.inp.instrument = "IF"
    /\ last.inp.direction = "LONG"
    /\ last.inp.price = 1000
    /\ last.inp.price_type = "Decimal"
    /\ last.outcome.raised

\* Between floats: a buy at upper - 0.0005 * price (2000 under 2001) is
\* rejected and a buy at upper - 0.002 * price (1000 under 1002) is accepted.
C16_FloatExamples ==
    /\ last.called
    /\ last.inp.price_type = "float"
    /\ last.inp.limit_type = "float"
    /\ last.inp.direction = "LONG"
    /\ \/ /\ last.inp.instrument = "au"
          /\ last.inp.price = 2000
          /\ last.outcome.result = RiskCheckResult(FALSE, ERR_PRICE_LIMIT)
       \/ /\ last.inp.instrument = "ag"
          /\ last.inp.price = 1000
          /\ last.outcome.result = RiskCheckResult(TRUE, "")

(***************************************************************************)
(* Claims on sequences of calls (SpecRisk)                                 *)
(***************************************************************************)

\* The steps before the rate-limit step all pass on the recorded call.
OtherChecksPass(rec) ==
    /\ rec.inp.account /= NoneAccount
    /\ \A i \in 1..(Len(StepOrder) - 1) :
          StepApplies(StepOrder[i], rec.inp) => StepResult(StepOrder[i], rec).passed

\* The orders of instrument code accepted before the recorded call and less
\* than one window before it.
AcceptedInWindow(rec, history) ==
    Cardinality({i \in 1..Len(history) :
                    /\ history[i].code = rec.inp.instrument
                    /\ history[i].time > rec.time - WindowSeconds})

HistoryBefore(rec) ==
    IF rec.result.passed THEN SubSeq(accepted, 1, Len(accepted) - 1) ELSE accepted

\* C3: an order that passes all other checks passes when fewer than
\* max_order_per_minute orders of its instrument were accepted in the 60
\* seconds before it (the first N of a window, and again once the oldest has
\* aged out), and is rejected with the rate-limit code when N were.
C3_SlidingWindowOfAcceptedOrders ==
    (last.called /\ OtherChecksPass(last)) =>
        LET recent == AcceptedInWindow(last, HistoryBefore(last))
        IN  /\ recent < MaxOrderPerMinute => last.result.passed
            /\ recent >= MaxOrderPerMinute =>
                  last.result = RiskCheckResult(FALSE, ERR_RATE_LIMIT)

\* An order accepted on a list that held N timestamps before the call, the
\* oldest of them one window old.
C3_Witness ==
    /\ last.called
    /\ last.result.passed
    /\ last.inp.instrument \in DOMAIN last.before
    /\ Len(last.before[last.inp.instrument]) = MaxOrderPerMinute
    /\ last.before[last.inp.instrument][1] = last.time - WindowSeconds

\* the timestamps of the counter oc that are a window old or older at t
Stale(oc, t) ==
    {<<c, i>> \in (DOMAIN oc) \X (1..MaxOrderPerMinute) :
        i <= Len(oc[c]) /\ oc[c][i] <= t - WindowSeconds}

\* C24 as stated: in every state no rate-limit list holds a timestamp
\* older than the 60-second window relative to the current time.
C24_NoStaleTimestampEver ==
    \A c \in DOMAIN order_count :
        \A i \in 1..Len(order_count[c]) :
            order_count[c][i] >= now - WindowSeconds

\* C24: right after a call of check_order_before_submit that reached
\* _check_rate_limit, no rate-limit list (of the order's instrument or of
\* any other) holds a timestamp that is 60 seconds old or older, and no
\* list is empty.  (Between such calls the lists are left as they are
\* while the clock advances.)
C24_NoStaleTimestampAfterRateCheck ==
    (last.called /\ OtherChecksPass(last) /\ last.time = now) =>
        /\ Stale(order_count, now) = {}
        /\ \A c \in DOMAIN order_count : order_count[c] /= <<>>

\* a call for one instrument has removed the aged timestamps of the other
\* instrument's list, and with them the list
C24_Witness ==
    /\ last.called
    /\ OtherChecksPass(last)
    /\ last.time = now
    /\ last.inp.instrument = "IF"
    /\ "rb" \in DOMAIN last.before
    /\ Len(last.before["rb"]) = MaxOrderPerMinute
    /\ Stale(last.before, now) /= {}
    /\ "rb" \notin DOMAIN order_count

\* the clock has advanced past the window with no call in between: the
\* list still holds the aged timestamp
C24_StaleBetweenCalls ==
    /\ "IF" \in DOMAIN order_count
    /\ order_count["IF"][1] < now - WindowSeconds

(***************************************************************************)
(*                              AlgoEngine                                 *)
(***************************************************************************)

\* ---- bounds of the algo model ----
MaxTotal == 4          \* the small total volumes are 1..MaxTotal
LateSeconds == 30      \* an await may return this many seconds late
MaxLates == 1          \* how many awaits of one execution may return late

\* ---- program constants ----
SliceSeconds == 60       \* execute_twap: one slice per minute
DefaultDuration == 3600  \* execute_twap: timedelta(hours=1)
BucketSeconds == 60      \* execute_vwap: asyncio.sleep(60)

\* Optional[datetime] = None
NoneTime == -1000000

Max(a, b) == IF a >= b THEN a ELSE b
Min(a, b) == IF a <= b THEN a ELSE b

RECURSIVE SumSeq(_)
SumSeq(q) == IF q = <<>> THEN 0 ELSE q[1] + SumSeq(Tail(q))

\* round(a / b): Python rounds a half to the even neighbour.
round_div(a, b) ==
    LET q == a \div b
        r == a % b
    IN  IF 2 * r < b THEN q
        ELSE IF 2 * r > b THEN q + 1
        ELSE IF q % 2 = 0 THEN q ELSE q + 1

\* ---- the orders handed to the engine ----
AlgoOrder(total_volume, start_time, end_time) ==
    [total_volume |-> total_volume, start_time |-> start_time, end_time |-> end_time,
     filled_volume |-> 0, status |-> "pending"]

\* start_time and end_time - start_time of the small orders; the clock is 0 at the call
StartOptions == {NoneTime, -60, 0, 30}
WindowOptions == {0, 60, 150}

EndOptions(st) ==
    {NoneTime} \cup {(IF st = NoneTime THEN 0 ELSE st) + w : w \in WindowOptions}

AlgoOrders ==
    UNION {{AlgoOrder(v, st, en) : v \in 1..MaxTotal, en \in EndOptions(st)} :
              st \in StartOptions}
    \cup {AlgoOrder(v, 0, 600) : v \in {95, 100}}

\* the volume profiles _get_volume_profile may return, in the order of their keys
VolumeProfiles == {<<>>, <<0, 0>>, <<1, 1>>, <<1, 3>>, <<3, 1>>, <<2, 1, 1>>}

NewFrame ==
    [pc |-> "new", algo |-> "none", i |-> 0, num_slices |-> 0, volume_per_slice |-> 0,
     total_duration |-> 0, slept |-> 0, slice_volume |-> 0, cumulative |-> 0,
     profile |-> <<>>, lates |-> 0, result |-> FALSE]

Returned(o, f, result) ==
    [order |-> o, frame |-> [f EXCEPT !.pc = "done", !.result = result]]

Suspended(o, f, pc, slice_volume) ==
    [order |-> o, frame |-> [f EXCEPT !.pc = pc, !.slice_volume = slice_volume]]

\* ---- execute_twap ----
\* timezone.now() is aclock + slept * total_duration / num_slices: the sleeps
\* between slices are kept as a count, so that comparisons stay exact.
TwapNowBefore(clk, f, t) == f.num_slices * clk + f.slept * f.total_duration < f.num_slices * t

\* lines 179-188: the final status
TwapEnd(o, f) ==
    LET status == IF o.filled_volume >= o.total_volume THEN "completed" ELSE "partial"
    IN  Returned([o EXCEPT !.status = status], f, status = "completed")

\* lines 143-151, up to the await of _place_order
TwapAfterNow(o, f, clk) ==
    LET remaining == o.total_volume - o.filled_volume
    IN  IF ~TwapNowBefore(clk, f, o.end_time) THEN TwapEnd(o, f)
        ELSE IF remaining <= 0 THEN TwapEnd(o, f)
        ELSE Suspended(o, f, "twap_place", Min(f.volume_per_slice, remaining))

\* lines 132-141: the top of an iteration
TwapLoopTop(o, f, clk) ==
    IF f.i >= f.num_slices THEN TwapEnd(o, f)
    ELSE IF o.status /= "running" THEN TwapEnd(o, f)
    ELSE IF TwapNowBefore(clk, f, o.start_time) THEN Suspended(o, f, "twap_wait_start", 0)
    ELSE TwapAfterNow(o, f, clk)

\* lines 104-129 and the first iteration up to its first await
TwapStart(o, f, clk) ==
    LET start_time == IF o.start_time = NoneTime THEN clk ELSE o.start_time
        end_time == IF o.end_time = NoneTime THEN start_time + DefaultDuration ELSE o.end_time
        timed == [o EXCEPT !.start_time = start_time, !.end_time = end_time]
        total_duration == end_time - start_time
        slices0 == Max(1, total_duration \div SliceSeconds)
        volume_per_slice == Max(1, round_div(o.total_volume, slices0))
        num_slices == o.total_volume \div volume_per_slice
    IN  IF total_duration <= 0 THEN Returned(timed, [f EXCEPT !.algo = "twap"], FALSE)
        ELSE TwapLoopTop([timed EXCEPT !.status = "running"],
                         [f EXCEPT !.algo = "twap", !.i = 0, !.num_slices = num_slices,
                                   !.volume_per_slice = volume_per_slice,
                                   !.total_duration = total_duration],
                         clk)

\* ---- execute_vwap ----
VwapEnd(o, f) ==
    LET status == IF o.filled_volume >= o.total_volume THEN "completed" ELSE "partial"
    IN  Returned([o EXCEPT !.status = status], f, status = "completed")

\* max(1, int(total_volume * (ratio - cumulative_ratio))), the ratios as numerators
\* over the profile's total
VwapSliceVolume(o, f) ==
    LET numerator == f.profile[f.i] - f.cumulative
    IN  IF numerator <= 0 THEN 1
        ELSE Max(1, (o.total_volume * numerator) \div SumSeq(f.profile))

\* lines 214-232: the top of an iteration, up to the await of _place_order
VwapLoopTop(o, f) ==
    IF f.i > Len(f.profile) THEN VwapEnd(o, f)
    ELSE IF o.status /= "running" THEN VwapEnd(o, f)
    ELSE Suspended(o, f, "vwap_place", VwapSliceVolume(o, f))

\* lines 200-212 and the first iteration; without a profile, execute_twap
VwapStart(o, f, clk, volume_profile) ==
    IF SumSeq(volume_profile) <= 0 THEN TwapStart(o, f, clk)
    ELSE VwapLoopTop([o EXCEPT !.status = "running"],
                     [f EXCEPT !.algo = "vwap", !.i = 1, !.cumulative = 0,
                               !.profile = volume_profile])

\* ---- execute_snapshot ----
\* lines 260-293: the volume is the total on either side of the book
SnapshotStart(o, f) ==
    Suspended([o EXCEPT !.status = "running"], [f EXCEPT !.algo = "snapshot"],
              "snapshot_place", o.total_volume)

\* ---- the specification ----
InitAlgo ==
    /\ ContainerIdle
    /\ order \in AlgoOrders
    /\ frame = NewFrame
    /\ aclock = 0
    /\ registered \in BOOLEAN
    /\ slices = <<>>
    /\ clean = TRUE
    /\ RiskIdle
    /\ StopIdle
    /\ ModuleIdle
    /\ CronIdle
    /\ CondIdle

Resume(next) ==
    /\ order' = next.order
    /\ frame' = next.frame

\* what an await may add to the clock
Lateness == {0} \cup (IF frame.lates < MaxLates THEN {LateSeconds} ELSE {})

Awaited(late, f) == IF late > 0 THEN [f EXCEPT !.lates = @ + 1] ELSE f

execute_twap ==
    /\ frame.pc = "new"
    /\ Resume(TwapStart(order, frame, aclock))
    /\ UNCHANGED <<aclock, registered, slices, clean>>
    /\ AlgoOnly

execute_vwap ==
    /\ frame.pc = "new"
    /\ \E volume_profile \in VolumeProfiles :
          Resume(VwapStart(order, frame, aclock, volume_profile))
    /\ UNCHANGED <<aclock, registered, slices, clean>>
    /\ AlgoOnly

execute_snapshot ==
    /\ frame.pc = "new"
    /\ Resume(SnapshotStart(order, frame))
    /\ UNCHANGED <<aclock, registered, slices, clean>>
    /\ AlgoOnly

\* line 140-141: asyncio.sleep until start_time returns
TwapStartReached ==
    /\ frame.pc = "twap_wait_start"
    /\ \E late \in Lateness :
          /\ aclock' = order.start_time + late
          /\ Resume(TwapAfterNow(order, Awaited(late, frame), order.start_time + late))
          /\ clean' = (clean /\ late = 0)
    /\ UNCHANGED <<registered, slices>>
    /\ AlgoOnly

\* lines 168-177: _place_order returns; on to asyncio.sleep(time_per_slice)
TwapPlaced ==
    /\ frame.pc = "twap_place"
    /\ \E success \in BOOLEAN, late \in Lateness :
          /\ aclock' = aclock + late
          /\ order' = IF success
                      THEN [order EXCEPT !.filled_volume = @ + frame.slice_volume]
                      ELSE order
          /\ frame' = [Awaited(late, frame) EXCEPT !.pc = "twap_sleep"]
          /\ slices' = IF success THEN Append(slices, frame.slice_volume) ELSE slices
          /\ clean' = (clean /\ success /\ late = 0)
    /\ UNCHANGED registered
    /\ AlgoOnly

\* line 177 returns: the next iteration
TwapSlept ==
    /\ frame.pc = "twap_sleep"
    /\ \E late \in Lateness :
          /\ aclock' = aclock + late
          /\ Resume(TwapLoopTop(order,
                                [Awaited(late, frame) EXCEPT !.i = @ + 1, !.slept = @ + 1],
                                aclock + late))
          /\ clean' = (clean /\ late = 0)
    /\ UNCHANGED <<registered, slices>>
    /\ AlgoOnly

\* lines 232-243: _place_order returns; on to asyncio.sleep(60)
VwapPlaced ==
    /\ frame.pc = "vwap_place"
    /\ \E success \in BOOLEAN :
          /\ order' = IF success
                      THEN [order EXCEPT !.filled_volume = @ + frame.slice_volume]
                      ELSE order
          /\ frame' = [frame EXCEPT !.pc = "vwap_sleep",
                                    !.cumulative = IF success THEN @ + frame.profile[frame.i]
                                                   ELSE @]
          /\ slices' = IF success THEN Append(slices, frame.slice_volume) ELSE slices
          /\ clean' = (clean /\ success)
    /\ UNCHANGED <<aclock, registered>>
    /\ AlgoOnly

\* line 243 returns: the next bucket
VwapSlept ==
    /\ frame.pc = "vwap_sleep"
    /\ aclock' = aclock + BucketSeconds
    /\ Resume(VwapLoopTop(order, [frame EXCEPT !.i = @ + 1]))
    /\ UNCHANGED <<registered, slices, clean>>
    /\ AlgoOnly

\* lines 293-299: _place_order returns
SnapshotPlaced ==
    /\ frame.pc = "snapshot_place"
    /\ \E success \in BOOLEAN :
          /\ order' = [order EXCEPT
                          !.filled_volume = IF success THEN frame.slice_volume ELSE @,
                          !.status = IF success THEN "completed" ELSE "failed"]
          /\ frame' = [frame EXCEPT !.pc = "done", !.result = success]
          /\ slices' = IF success THEN Append(slices, frame.slice_volume) ELSE slices
          /\ clean' = (clean /\ success)
    /\ UNCHANGED <<aclock, registered>>
    /\ AlgoOnly

\* cancel_algo_order(order_id): any time the coroutine is not running
cancel_algo_order ==
    /\ registered
    /\ order.status /= "cancelled"
    /\ order' = [order EXCEPT !.status = "cancelled"]
    /\ clean' = FALSE
    /\ UNCHANGED <<frame, aclock, registered, slices>>
    /\ AlgoOnly

NextAlgo ==
    \/ execute_twap
    \/ execute_vwap
    \/ execute_snapshot
    \/ TwapStartReached
    \/ TwapPlaced
    \/ TwapSlept
    \/ VwapPlaced
    \/ VwapSlept
    \/ SnapshotPlaced
    \/ cancel_algo_order

SpecAlgo == InitAlgo /\ [][NextAlgo]_vars

(***************************************************************************)
(* Claims on the execution of an AlgoOrder (SpecAlgo)                      *)
(***************************************************************************)

TerminalStatus == {"completed", "partial", "failed", "cancelled"}

\* The moves of the status the claim allows, over one or more steps of the code.
StatusMoveAllowed(from, to) ==
    \/ to = from
    \/ from = "pending" /\ to \in {"running"} \cup TerminalStatus
    \/ from = "running" /\ to \in TerminalStatus

\* C4: the status of an AlgoOrder only moves forward (pending -> running ->
\* partial / completed / failed); cancelled is entered from a non-terminal
\* status only and is never left, and a terminal status is never changed.
C4_StatusOnlyMovesForward == [][StatusMoveAllowed(order.status, order'.status)]_vars

\* C5: filled_volume <= total_volume in every state of an order executed by
\* execute_twap, execute_vwap or execute_snapshot.
C5_FilledWithinTotal == order.filled_volume <= order.total_volume

\* C6: when execute_twap is called no later than start_time, every placement
\* succeeds in time and nothing cancels, the placed slices sum to total_volume;
\* total 100 over 600 seconds is placed as 10 slices of 10.
C6_TwapSlicesSumToTotal ==
    (/\ frame.pc = "done"
     /\ frame.algo = "twap"
     /\ frame.total_duration > 0
     /\ order.start_time >= 0
     /\ clean)
    => /\ SumSeq(slices) = order.total_volume
       /\ (order.total_volume = 100 /\ frame.total_duration = 600)
             => slices = [k \in 1..10 |-> 10]

\* a step in which execute_twap calls _place_order for a slice
TwapPlaces == frame'.algo = "twap" /\ frame'.pc = "twap_place" /\ frame.pc /= "twap_place"

\* a step in which execute_twap returns
TwapReturns == frame'.algo = "twap" /\ frame'.pc = "done" /\ frame.pc /= "done"

\* no slice is placed once the status is no longer running
C20_NoSliceUnlessRunning == [][TwapPlaces => order'.status = "running"]_vars

\* no slice is placed once the time has reached end_time
C20_NoSliceAtOrAfterEnd ==
    [][TwapPlaces => TwapNowBefore(aclock', frame', order'.end_time)]_vars

\* at the return the status is completed or partial, by the filled volume
C20_StatusAtReturn ==
    [][TwapReturns =>
          order'.status = IF order'.filled_volume >= order'.total_volume
                          THEN "completed" ELSE "partial"]_vars

\* the returned boolean is True exactly when the status is completed
C20_ResultAtReturn ==
    [][TwapReturns => (frame'.result <=> order'.status = "completed")]_vars

\* C20: execute_twap places no further slice once the order's status has been
\* changed away from running or once the current time has reached end_time;
\* when it returns, status is completed if and only if filled_volume >=
\* total_volume and partial otherwise, and the returned boolean is True
\* exactly when status is completed.
C20_TwapStopsAndReports ==
    /\ C20_NoSliceUnlessRunning
    /\ C20_NoSliceAtOrAfterEnd
    /\ C20_StatusAtReturn
    /\ C20_ResultAtReturn

\* A slice placed for an order cancelled while execute_twap slept until
\* start_time.
C20_SliceAfterCancel ==
    /\ frame.algo = "twap"
    /\ frame.pc = "twap_sleep"
    /\ frame.i = 0
    /\ order.status = "cancelled"
    /\ slices /= <<>>
    /\ order.start_time > 0

\* an execute_vwap run in which every placement succeeded and no cancel
\* came: slice k is the slice of bucket k
CleanVwap == frame.algo = "vwap" /\ clean

\* v is total_volume times the bucket's share, rounded down or up
ProportionalShare(v, total, bucket_volume, profile_total) ==
    /\ v * profile_total > total * bucket_volume - profile_total
    /\ v * profile_total < total * bucket_volume + profile_total

\* C31: with a volume profile, every bucket's slice of execute_vwap is
\* total_volume times the bucket's share of the profile (to the whole
\* unit), and the slices of all buckets together are the total volume.
C31_VwapSlicesProportional ==
    CleanVwap =>
        /\ \A k \in 1..Len(slices) :
              ProportionalShare(slices[k], order.total_volume,
                                frame.profile[k], SumSeq(frame.profile))
        /\ frame.pc = "done" => SumSeq(slices) = order.total_volume

\* What the loop does compute: the first bucket gets int(total * share),
\* at least 1; every later bucket gets max(1, int(total * (its share -
\* the sum of the shares before it))).
C31_SlicesAsComputed ==
    CleanVwap =>
        \A k \in 1..Len(slices) :
            LET before == SumSeq(SubSeq(frame.profile, 1, k - 1))
                numerator == frame.profile[k] - before
            IN  slices[k]
                  = IF numerator <= 0 THEN 1
                    ELSE Max(1, (order.total_volume * numerator)
                                    \div SumSeq(frame.profile))

\* total 100 over two equal buckets: 50 for the first, 1 for the second
C31_SecondBucketGetsOne ==
    /\ CleanVwap
    /\ frame.pc = "done"
    /\ order.total_volume = 100
    /\ frame.profile = <<1, 1>>
    /\ slices = <<50, 1>>
    /\ order.status = "partial"

\* total 4 with shares 1/4 and 3/4: 1 for the first bucket, 2 for the second
C31_SharesNotKept ==
    /\ CleanVwap
    /\ frame.pc = "done"
    /\ order.total_volume = 4
    /\ frame.profile = <<1, 3>>
    /\ slices = <<1, 2>>

\* ======================================================================
\* StopEngine (risk/stop_engine.py)
\* ======================================================================
\* Prices are whole ticks, percentages are whole percents; a comparison
\* with a percentage threshold is made on both sides times 100, which is
\* what the Decimal arithmetic of the code yields exactly.

NoneDecimal == -1000000      \* an Optional[Decimal] that is None
\* Position.objects.filter(id=...).first() is None
NonePosition == [position |-> "None"]

DefaultStopLossPct == 2

StopTypes == {"fixed_price", "percentage", "atr", "trailing", "time"}

PositionIds == {1, 2, 3}     \* no Position row has id 3

InitialPositions ==
    (1 :> [direction |-> "LONG", avg_open_price |-> 100, position |-> 1,
           code |-> "a"])
    @@ (2 :> [direction |-> "SHORT", avg_open_price |-> 100, position |-> 1,
              code |-> "b"])

Codes == {"a", "b"}
QuotesOf(code) ==
    IF code = "a" THEN {NoneDecimal, 100, 104, 108, 110}
    ELSE {90, 92, 96, 100}
CurrentPrices == {[a |-> pa, b |-> pb] : pa \in QuotesOf("a"), pb \in QuotesOf("b")}

StopPrices == {96, 104}
StopPercentages == {NoneDecimal}
TakeProfitPrices == {92, 108}
TrailingDistances == {5}

get_position(position_id) ==
    IF position_id \in DOMAIN positions THEN positions[position_id]
    ELSE NonePosition

StopOrder(stop_type, stop_price, stop_percentage, trailing_distance, direction) ==
    [stop_type |-> stop_type, stop_price |-> stop_price,
     stop_percentage |-> stop_percentage,
     trailing_distance |-> trailing_distance, direction |-> direction,
     triggered |-> FALSE, highest_price |-> NoneDecimal,
     lowest_price |-> NoneDecimal]

\* the watermark a trailing stop starts from: the position's entry price
with_watermark(stop_order, position) ==
    IF position.direction = "LONG"
    THEN [stop_order EXCEPT !.highest_price = position.avg_open_price]
    ELSE [stop_order EXCEPT !.lowest_price = position.avg_open_price]

new_stop_loss(position, stop_type, stop_price, stop_percentage, trailing_distance) ==
    LET pct == IF stop_percentage = NoneDecimal THEN DefaultStopLossPct
               ELSE stop_percentage
        stop_order == StopOrder(stop_type, stop_price, pct, trailing_distance,
                                position.direction)
    IN  IF stop_type = "trailing" THEN with_watermark(stop_order, position)
        ELSE stop_order

new_take_profit(position, take_profit_price, take_profit_percentage) ==
    StopOrder("fixed_price", take_profit_price, take_profit_percentage,
              NoneDecimal, position.direction)

new_trailing_stop(position, distance, distance_pct) ==
    with_watermark(
        StopOrder("trailing", NoneDecimal, NoneDecimal,
                  IF distance # NoneDecimal /\ distance # 0 THEN distance
                  ELSE distance_pct,
                  position.direction),
        position)

Put(f, k, v) == [x \in DOMAIN f \cup {k} |-> IF x = k THEN v ELSE f[x]]
Remove(f, k) == [x \in DOMAIN f \ {k} |-> f[x]]

\* self.stop_orders[position_id] = stop_order, with a variant that keeps
\* the flag of the order it replaces
set_stop_order_keeps_flag(orders, position_id, stop_order) ==
    Put(orders, position_id,
        IF position_id \in DOMAIN orders
        THEN [stop_order EXCEPT !.triggered = orders[position_id].triggered]
        ELSE stop_order)

set_stop_order(orders, position_id, stop_order) ==
    Put(orders, position_id, stop_order)

\* _check_stop_condition: the verdict, the threshold, and the order with
\* the watermark the call leaves in it.  A percentage threshold is
\* reported times 100.
Verdict(should_trigger, stop_price, stop_order) ==
    [should_trigger |-> should_trigger, stop_price |-> stop_price,
     stop_order |-> stop_order]

\* variant: a trailing stop whose watermark stays at the entry price
_check_stop_condition_fixed_watermark(position, stop_order, current_price) ==
    IF stop_order.stop_type = "trailing"
    THEN IF position.direction = "LONG"
         THEN LET sp == stop_order.highest_price - stop_order.trailing_distance
              IN Verdict(current_price <= sp, sp, stop_order)
         ELSE LET sp == stop_order.lowest_price + stop_order.trailing_distance
              IN Verdict(current_price >= sp, sp, stop_order)
    ELSE Verdict(FALSE, NoneDecimal, stop_order)

\* variant: a trailing stop whose watermark is the price of the last check
_check_stop_condition_follows_price(position, stop_order, current_price) ==
    IF stop_order.stop_type = "trailing"
    THEN IF position.direction = "LONG"
         THEN LET o == [stop_order EXCEPT !.highest_price = current_price]
                  sp == o.highest_price - o.trailing_distance
              IN Verdict(current_price <= sp, sp, o)
         ELSE LET o == [stop_order EXCEPT !.lowest_price = current_price]
                  sp == o.lowest_price + o.trailing_distance
              IN Verdict(current_price >= sp, sp, o)
    ELSE Verdict(FALSE, NoneDecimal, stop_order)

\* variant: a percentage stop whose threshold is below the average open
\* price for a short position as well
_check_stop_condition_pct_below(position, stop_order, current_price) ==
    IF stop_order.stop_type = "percentage"
    THEN LET sp100 == position.avg_open_price
                          * (100 - stop_order.stop_percentage)
         IN  IF position.direction = "LONG"
             THEN Verdict(current_price * 100 <= sp100, sp100, stop_order)
             ELSE Verdict(current_price * 100 >= sp100, sp100, stop_order)
    ELSE Verdict(FALSE, NoneDecimal, stop_order)

_check_stop_condition(position, stop_order, current_price) ==
    IF stop_order.stop_type = "fixed_price"
    THEN IF position.direction = "LONG"
         THEN Verdict(current_price <= stop_order.stop_price,
                      stop_order.stop_price, stop_order)
         ELSE Verdict(current_price >= stop_order.stop_price,
                      stop_order.stop_price, stop_order)
    ELSE IF stop_order.stop_type = "percentage"
    THEN LET sp100 == IF position.direction = "SHORT"
                      THEN position.avg_open_price
                               * (100 + stop_order.stop_percentage)
                      ELSE position.avg_open_price
                               * (100 - stop_order.stop_percentage)
         IN  IF position.direction = "LONG"
             THEN Verdict(current_price * 100 <= sp100, sp100, stop_order)
             ELSE Verdict(current_price * 100 >= sp100, sp100, stop_order)
    ELSE IF stop_order.stop_type = "trailing"
    THEN IF position.direction = "LONG"
         THEN LET o == IF stop_order.highest_price = NoneDecimal
                          \/ current_price > stop_order.highest_price
                       THEN [stop_order EXCEPT !.highest_price = current_price]
                       ELSE stop_order
                  sp == o.highest_price - o.trailing_distance
              IN Verdict(current_price <= sp, sp, o)
         ELSE LET o == IF stop_order.lowest_price = NoneDecimal
                          \/ current_price < stop_order.lowest_price
                       THEN [stop_order EXCEPT !.lowest_price = current_price]
                       ELSE stop_order
                  sp == o.lowest_price + o.trailing_distance
              IN Verdict(current_price >= sp, sp, o)
    ELSE Verdict(FALSE, NoneDecimal, stop_order)

\* the first test of the sweep's loop body, with a variant that never skips
skips_never(stop_order) == FALSE

skips(stop_order) == stop_order.triggered

\* One turn of the loop of check_and_trigger for one entry of stop_orders:
\* whether the entry stays, what it becomes, and what is reported.
Turn(keep, stop_order, info) ==
    [keep |-> keep, stop_order |-> stop_order, info |-> info]

NoInfo == [reported |-> FALSE]

\* `continue` on an order that has triggered: the entry stays as it is;
\* with a variant in which the sweep drops it
passed_over_dropped(stop_order) == Turn(FALSE, stop_order, NoInfo)

passed_over(stop_order) == Turn(TRUE, stop_order, NoInfo)

\* variant: the loop body without the test of position.position == 0
check_one_ignores_size(position_id, stop_order, current_prices) ==
    IF skips(stop_order) THEN passed_over(stop_order)
    ELSE LET position == get_position(position_id) IN
         IF position = NonePosition THEN Turn(FALSE, stop_order, NoInfo)
         ELSE LET current_price == current_prices[position.code] IN
              IF current_price = NoneDecimal THEN Turn(TRUE, stop_order, NoInfo)
              ELSE LET v == _check_stop_condition(position, stop_order,
                                                  current_price)
                   IN  IF v.should_trigger
                       THEN Turn(TRUE, [v.stop_order EXCEPT !.triggered = TRUE],
                                 [reported |-> TRUE,
                                  current_price |-> current_price,
                                  stop_price |-> v.stop_price])
                       ELSE Turn(TRUE, v.stop_order, NoInfo)

check_one(position_id, stop_order, current_prices) ==
    IF skips(stop_order) THEN passed_over(stop_order)
    ELSE LET position == get_position(position_id) IN
         IF position = NonePosition THEN Turn(FALSE, stop_order, NoInfo)
         ELSE IF position.position = 0 THEN Turn(FALSE, stop_order, NoInfo)
         ELSE LET current_price == current_prices[position.code] IN
              IF current_price = NoneDecimal THEN Turn(TRUE, stop_order, NoInfo)
              ELSE LET v == _check_stop_condition(position, stop_order,
                                                  current_price)
                   IN  IF v.should_trigger
                       THEN Turn(TRUE, [v.stop_order EXCEPT !.triggered = TRUE],
                                 [reported |-> TRUE,
                                  current_price |-> current_price,
                                  stop_price |-> v.stop_price])
                       ELSE Turn(TRUE, v.stop_order, NoInfo)

\* ---- history kept beside each stop order, from its registration on ----
\* args: the call that registered it; entry: the position's entry price at
\* that call; prev, last: the two most recent prices the sweep was given
\* for the position while it was open and the stop was not yet due (kept
\* for trailing stops only); reports: how often the order was in a
\* returned list.

NewTrack(args, position) ==
    [args |-> args, entry |-> position.avg_open_price,
     direction |-> position.direction,
     extreme |-> position.avg_open_price, due |-> FALSE,
     prev |-> NoneDecimal, last |-> NoneDecimal, reports |-> 0]

IsTrailingArgs(args) ==
    \/ args.op = "register_trailing_stop"
    \/ args.op = "register_stop_loss" /\ args.stop_type = "trailing"

DistanceOf(args) ==
    IF args.op = "register_trailing_stop" THEN args.distance
    ELSE args.trailing_distance

Observe(t, p) ==
    LET e == IF t.direction = "LONG" THEN Max(t.extreme, p)
             ELSE Min(t.extreme, p)
        d == DistanceOf(t.args)
    IN  [t EXCEPT !.extreme = e,
                  !.due = IF t.direction = "LONG" THEN p <= e - d
                          ELSE p >= e + d,
                  !.prev = t.last, !.last = p]

Tracked(t, position_id, current_prices, reported) ==
    LET position == get_position(position_id)
        p == IF position = NonePosition THEN NoneDecimal
             ELSE IF position.position = 0 THEN NoneDecimal
             ELSE current_prices[position.code]
        t1 == IF IsTrailingArgs(t.args) /\ ~t.due /\ p # NoneDecimal
              THEN Observe(t, p) ELSE t
    IN  [t1 EXCEPT !.reports = IF reported THEN Min(t.reports + 1, 2)
                               ELSE t.reports]

\* ---- the operations ----

InitStop ==
    /\ ContainerIdle
    /\ positions = InitialPositions
    /\ stop_orders = <<>>
    /\ returned = [ok |-> FALSE]
    /\ track = <<>>
    /\ replaced = FALSE
    /\ ModuleIdle
    /\ CronIdle
    /\ CondIdle
    /\ RiskIdle
    /\ AlgoIdle

Registered(position_id, args, stop_order) ==
    /\ stop_orders' = set_stop_order(stop_orders, position_id, stop_order)
    /\ track' = Put(track, position_id,
                    NewTrack(args, get_position(position_id)))
    /\ replaced' = (/\ position_id \in DOMAIN stop_orders
                    /\ stop_orders[position_id].triggered)
    /\ returned' = [ok |-> TRUE]
    /\ UNCHANGED positions

\* variant: a registration that finds no position takes the id's entry
\* out of the map
NotRegistered_drops_entry(position_id) ==
    /\ returned' = [ok |-> FALSE]
    /\ replaced' = FALSE
    /\ stop_orders' = Remove(stop_orders, position_id)
    /\ track' = Remove(track, position_id)
    /\ UNCHANGED positions

NotRegistered(position_id) ==
    /\ returned' = [ok |-> FALSE]
    /\ replaced' = FALSE
    /\ UNCHANGED <<positions, stop_orders, track>>

register_stop_loss(position_id, stop_type, stop_price, stop_percentage, trailing_distance) ==
    /\ LET position == get_position(position_id)
           args == [op |-> "register_stop_loss", stop_type |-> stop_type,
                    stop_price |-> stop_price,
                    stop_percentage |-> stop_percentage,
                    trailing_distance |-> trailing_distance]
       IN  IF position = NonePosition
           THEN NotRegistered(position_id)
           ELSE Registered(position_id, args,
                           new_stop_loss(position, stop_type, stop_price,
                                         stop_percentage, trailing_distance))
    /\ StopOnly

register_take_profit(position_id, take_profit_price) ==
    /\ LET position == get_position(position_id)
           args == [op |-> "register_take_profit",
                    take_profit_price |-> take_profit_price]
       IN  IF position = NonePosition
           THEN NotRegistered(position_id)
           ELSE Registered(position_id, args,
                           new_take_profit(position, take_profit_price,
                                           NoneDecimal))
    /\ StopOnly

register_trailing_stop(position_id, distance) ==
    /\ LET position == get_position(position_id)
           args == [op |-> "register_trailing_stop", distance |-> distance]
       IN  IF position = NonePosition
           THEN NotRegistered(position_id)
           ELSE Registered(position_id, args,
                           new_trailing_stop(position, distance, NoneDecimal))
    /\ StopOnly

cancel_stop_order(position_id) ==
    /\ stop_orders' = Remove(stop_orders, position_id)
    /\ track' = Remove(track, position_id)
    /\ returned' = [ok |-> position_id \in DOMAIN stop_orders]
    /\ replaced' = FALSE
    /\ UNCHANGED positions
    /\ StopOnly

\* returned: the list the call returns, and the orders it handed to
\* cancel_stop_order (each of them is logged)
check_and_trigger(current_prices) ==
    /\ LET turn == [id \in DOMAIN stop_orders |->
                       check_one(id, stop_orders[id], current_prices)]
           kept == {id \in DOMAIN stop_orders : turn[id].keep}
       IN  /\ stop_orders' = [id \in kept |-> turn[id].stop_order]
           /\ track' = [id \in kept |->
                           Tracked(track[id], id, current_prices,
                                   turn[id].info.reported)]
           /\ returned' =
                 [triggered_stops |->
                      {[position_id |-> id,
                        stop_price |-> turn[id].info.stop_price] :
                       id \in {k \in kept : turn[k].info.reported}},
                  cancelled |-> [id \in DOMAIN stop_orders \ kept |->
                                    stop_orders[id]]]
    /\ replaced' = FALSE
    /\ UNCHANGED positions
    /\ StopOnly

\* the position is closed out: its row stays, with volume 0
ClosePosition(position_id) ==
    /\ position_id \in DOMAIN positions
    /\ positions[position_id].position # 0
    /\ positions' = [positions EXCEPT ![position_id].position = 0]
    /\ replaced' = FALSE
    /\ UNCHANGED <<stop_orders, returned, track>>
    /\ StopOnly

NextStop ==
    \/ \E id \in PositionIds, sp \in StopPrices :
           register_stop_loss(id, "fixed_price", sp, NoneDecimal, NoneDecimal)
    \/ \E id \in PositionIds, pct \in StopPercentages :
           register_stop_loss(id, "percentage", NoneDecimal, pct, NoneDecimal)
    \/ \E id \in PositionIds, d \in TrailingDistances :
           register_stop_loss(id, "trailing", NoneDecimal, NoneDecimal, d)
    \/ \E id \in PositionIds :
           register_stop_loss(id, "atr", NoneDecimal, NoneDecimal, NoneDecimal)
    \/ \E id \in PositionIds, tp \in TakeProfitPrices :
           register_take_profit(id, tp)
    \/ \E id \in PositionIds, d \in TrailingDistances :
           register_trailing_stop(id, d)
    \/ \E id \in PositionIds : cancel_stop_order(id)
    \/ \E cp \in CurrentPrices : check_and_trigger(cp)
    \/ \E id \in PositionIds : ClosePosition(id)

SpecStop == InitStop /\ [][NextStop]_vars

\* ---- claims about the stop engine ----

TrailingIds ==
    {id \in DOMAIN stop_orders : IsTrailingArgs(track[id].args)}

\* C7: a trailing stop with absolute distance d on a long position
\* triggers at the first price p given to check_and_trigger with
\* p <= max(entry price, prices so far) - d and at no earlier one; on a
\* short position at the first p >= min(entry price, prices so far) + d.
\* (track.due is exactly that condition, evaluated on the prices alone.)
C7_TrailingTriggersAtFirstBreach ==
    \A id \in TrailingIds :
        /\ stop_orders[id].triggered = track[id].due
        /\ track[id].reports = (IF track[id].due THEN 1 ELSE 0)
        /\ track[id].due =>
              IF track[id].direction = "LONG"
              THEN track[id].last <= track[id].extreme - DistanceOf(track[id].args)
              ELSE track[id].last >= track[id].extreme + DistanceOf(track[id].args)

\* entry 100, d = 5: after 110 the price 108 did not trigger, 104 did
C7_Witness ==
    /\ 1 \in TrailingIds
    /\ stop_orders[1].triggered
    /\ track[1].extreme = 110 /\ track[1].prev = 108 /\ track[1].last = 104
    /\ "triggered_stops" \in DOMAIN returned
    /\ \E info \in returned.triggered_stops :
           info.position_id = 1 /\ info.stop_price = 105
    /\ 2 \in TrailingIds
    /\ stop_orders[2].triggered
    /\ track[2].extreme = 90 /\ track[2].prev = 92 /\ track[2].last = 96


ExpectedType(args) ==
    IF args.op = "register_take_profit" THEN "fixed_price"
    ELSE IF args.op = "register_trailing_stop" THEN "trailing"
    ELSE args.stop_type

ExpectedStopPrice(args) ==
    IF args.op = "register_take_profit" THEN args.take_profit_price
    ELSE IF args.op = "register_trailing_stop" THEN NoneDecimal
    ELSE args.stop_price

ExpectedDistance(args) ==
    IF args.op = "register_take_profit" THEN NoneDecimal
    ELSE DistanceOf(args)

\* C8: the engine holds one StopOrder per position id, that of the latest
\* successful registration: its kind and thresholds are the ones that
\* call asked for, its watermark starts from the entry price at that call
\* and follows only the prices seen since, and it is triggered only if a
\* sweep since that call reported it.
C8_LatestRegistrationOnly ==
    /\ DOMAIN track = DOMAIN stop_orders
    /\ \A id \in DOMAIN stop_orders :
          LET o == stop_orders[id]
              t == track[id]
          IN  /\ o.stop_type = ExpectedType(t.args)
              /\ o.stop_price = ExpectedStopPrice(t.args)
              /\ o.trailing_distance = ExpectedDistance(t.args)
              /\ o.triggered = (t.reports >= 1)
              /\ o.highest_price =
                     (IF o.stop_type = "trailing" /\ t.direction = "LONG"
                      THEN t.extreme ELSE NoneDecimal)
              /\ o.lowest_price =
                     (IF o.stop_type = "trailing" /\ t.direction = "SHORT"
                      THEN t.extreme ELSE NoneDecimal)

\* a trailing stop registered over an order that had triggered: it is
\* live again and its watermark is the entry price
C8_Witness ==
    /\ replaced
    /\ DOMAIN stop_orders = {2}
    /\ track[2].args.op = "register_trailing_stop"
    /\ ~stop_orders[2].triggered
    /\ stop_orders[2].lowest_price = 100

\* C9: with no re-registration in between, a StopOrder is in the returned
\* trigger lists of check_and_trigger at most once, and a sweep over an
\* order that has triggered reports nothing for it and leaves every field
\* of it as it was.
C9_TriggeredOrderReportedOnce ==
    /\ [](\A id \in DOMAIN stop_orders : track[id].reports <= 1)
    /\ [][\A id \in DOMAIN stop_orders :
              (/\ stop_orders[id].triggered
               /\ id \in DOMAIN track'
               /\ track'[id].reports >= 1)
              => /\ stop_orders'[id] = stop_orders[id]
                 /\ track'[id].reports = track[id].reports]_vars

\* a sweep has passed over a triggered order and returned an empty list
C9_Witness ==
    /\ DOMAIN stop_orders = {1}
    /\ stop_orders[1].triggered
    /\ track[1].reports = 1
    /\ returned = [triggered_stops |-> {}, cancelled |-> <<>>]

\* a step after which `returned` is the list of a sweep and the positions
\* are the ones before it: a check_and_trigger call (or no call at all)
SweepStep ==
    /\ "triggered_stops" \in DOMAIN returned'
    /\ positions' = positions

\* C22 as stated: an order that has triggered is gone from stop_orders
\* after the next check_and_trigger sweep.
C22_TriggeredRemovedByNextSweep ==
    [][SweepStep =>
          \A id \in DOMAIN stop_orders :
              stop_orders[id].triggered => id \notin DOMAIN stop_orders']_vars

\* C22: an order that check_and_trigger has marked triggered stays in
\* stop_orders, flag set, through every later sweep, also when its
\* position has been closed in the meantime; only cancel_stop_order or a
\* new registration for the position id takes it out of the map.
C22_TriggeredStaysInMap ==
    [][\A id \in DOMAIN stop_orders :
          stop_orders[id].triggered =>
              \/ /\ id \in DOMAIN stop_orders'
                 /\ stop_orders'[id].triggered
                 /\ track'[id].args = track[id].args
              \/ "ok" \in DOMAIN returned' /\ returned'.ok]_vars

\* a sweep has passed over a triggered order whose position is closed
C22_Witness ==
    /\ 1 \in DOMAIN stop_orders
    /\ stop_orders[1].triggered
    /\ positions[1].position = 0
    /\ returned = [triggered_stops |-> {}, cancelled |-> <<>>]

\* the threshold a trailing order has at its present watermark
TrailingThreshold(o) ==
    IF o.direction = "LONG" THEN o.highest_price - o.trailing_distance
    ELSE o.lowest_price + o.trailing_distance

\* C28: a trailing stop is never loosened: over a check_and_trigger call
\* highest_price of a long order does not decrease and lowest_price of a
\* short order does not increase, so the threshold derived from the
\* watermark moves only towards the best price reached.
C28_TrailingNeverLoosened ==
    [][SweepStep =>
          \A id \in DOMAIN stop_orders \cap DOMAIN stop_orders' :
              stop_orders[id].stop_type = "trailing" =>
                  LET o == stop_orders[id]
                      n == stop_orders'[id]
                  IN  IF o.direction = "LONG"
                      THEN /\ n.highest_price >= o.highest_price
                           /\ TrailingThreshold(n) >= TrailingThreshold(o)
                           /\ n.lowest_price = NoneDecimal
                      ELSE /\ n.lowest_price <= o.lowest_price
                           /\ TrailingThreshold(n) <= TrailingThreshold(o)
                           /\ n.highest_price = NoneDecimal]_vars

\* a long trailing stop swept at 110 and then at 108 keeps the watermark
\* 110, a short one swept at 90 and then at 92 keeps 90
C28_Witness ==
    /\ 1 \in TrailingIds /\ 2 \in TrailingIds
    /\ track[1].prev = 110 /\ track[1].last = 108
    /\ stop_orders[1].highest_price = 110
    /\ ~stop_orders[1].triggered
    /\ track[2].prev = 90 /\ track[2].last = 92
    /\ stop_orders[2].lowest_price = 90
    /\ ~stop_orders[2].triggered

\* the take-profit orders that a sweep with the prices cp checks: not yet
\* triggered, the position open, a price given, and the take-profit price
\* on the profit side of the entry price
TakeProfitsChecked(cp) ==
    {id \in DOMAIN stop_orders :
        /\ track[id].args.op = "register_take_profit"
        /\ ~stop_orders[id].triggered
        /\ get_position(id) /= NonePosition
        /\ get_position(id).position /= 0
        /\ cp[get_position(id).code] /= NoneDecimal
        /\ IF get_position(id).direction = "LONG"
           THEN stop_orders[id].stop_price > get_position(id).avg_open_price
           ELSE stop_orders[id].stop_price < get_position(id).avg_open_price}

ReportedBySweep(id) ==
    \E r \in returned'.triggered_stops : r.position_id = id

\* C38: a take-profit triggers on the profit side only: for a long
\* position with take-profit price T above the entry price,
\* check_and_trigger triggers it when the price is T or more and not while
\* the price is below T; for a short position when the price is T or less.
C38_TakeProfitOnProfitSide ==
    [][\A cp \in CurrentPrices :
          check_and_trigger(cp) =>
             \A id \in TakeProfitsChecked(cp) :
                LET price == cp[get_position(id).code]
                    T == stop_orders[id].stop_price
                IN  ReportedBySweep(id)
                       <=> IF get_position(id).direction = "LONG"
                           THEN price >= T ELSE price <= T]_vars

\* What check_and_trigger does with a take-profit: it is a fixed-price
\* stop, triggered for a long position when the price is T or less and
\* for a short position when the price is T or more.
C38_TakeProfitCheckedAsStopLoss ==
    [][\A cp \in CurrentPrices :
          check_and_trigger(cp) =>
             \A id \in TakeProfitsChecked(cp) :
                LET price == cp[get_position(id).code]
                    T == stop_orders[id].stop_price
                IN  ReportedBySweep(id)
                       <=> IF get_position(id).direction = "LONG"
                           THEN price <= T ELSE price >= T]_vars

\* the long position entered at 100 with a take-profit at 108, reported
\* by the first sweep after the registration with stop price 108 (no
\* price of the model makes that sweep skip it and a later one report it)
C38_TriggeredWithoutProfit ==
    /\ 1 \in DOMAIN stop_orders
    /\ track[1].args = [op |-> "register_take_profit", take_profit_price |-> 108]
    /\ stop_orders[1].triggered
    /\ track[1].reports = 1
    /\ returned = [triggered_stops |-> {[position_id |-> 1, stop_price |-> 108]},
                   cancelled |-> <<>>]


\* ---- one position over its life: added to, closed out, deleted ----
\* One Position row exists at the start (the long one or the short one);
\* the other id never has a row.  The average open price of the row
\* changes when the position is added to, its volume becomes 0 when it is
\* closed out, and the row may be deleted.

LifePercentages == {NoneDecimal, 5}      \* None: default_stop_loss_pct
LifeAverages == {90, 100, 110}
LifePrices == {[a |-> pa, b |-> pb] : pa \in {97, 105}, pb \in {95, 103}}

InitLife ==
    /\ ContainerIdle
    /\ \E id \in DOMAIN InitialPositions :
           positions = [x \in {id} |-> InitialPositions[x]]
    /\ stop_orders = <<>>
    /\ returned = [ok |-> FALSE]
    /\ track = <<>>
    /\ replaced = FALSE
    /\ ModuleIdle
    /\ CronIdle
    /\ CondIdle
    /\ RiskIdle
    /\ AlgoIdle

\* the position is added to at another price: its average open price moves
AddToPosition(position_id, avg_open_price) ==
    /\ position_id \in DOMAIN positions
    /\ positions[position_id].position # 0
    /\ positions[position_id].avg_open_price # avg_open_price
    /\ positions' = [positions EXCEPT
                        ![position_id].avg_open_price = avg_open_price]
    /\ replaced' = FALSE
    /\ UNCHANGED <<stop_orders, returned, track>>
    /\ StopOnly

\* the Position row is deleted
DeletePosition(position_id) ==
    /\ position_id \in DOMAIN positions
    /\ positions' = Remove(positions, position_id)
    /\ replaced' = FALSE
    /\ UNCHANGED <<stop_orders, returned, track>>
    /\ StopOnly

NextLife ==
    \/ \E id \in DOMAIN InitialPositions, pct \in LifePercentages :
           register_stop_loss(id, "percentage", NoneDecimal, pct, NoneDecimal)
    \/ \E id \in DOMAIN InitialPositions, tp \in TakeProfitPrices :
           register_take_profit(id, tp)
    \/ \E id \in DOMAIN InitialPositions, d \in TrailingDistances :
           register_trailing_stop(id, d)
    \/ \E cp \in LifePrices : check_and_trigger(cp)
    \/ \E id \in DOMAIN InitialPositions, avg \in LifeAverages :
           AddToPosition(id, avg)
    \/ \E id \in DOMAIN InitialPositions : ClosePosition(id)
    \/ \E id \in DOMAIN InitialPositions : DeletePosition(id)

SpecLife == InitLife /\ [][NextLife]_vars

\* some register_stop_loss, register_take_profit or register_trailing_stop
\* call for position_id makes the step
RegistrationFor(position_id) ==
    \/ \E pct \in LifePercentages :
           register_stop_loss(position_id, "percentage", NoneDecimal, pct,
                              NoneDecimal)
    \/ \E tp \in TakeProfitPrices : register_take_profit(position_id, tp)
    \/ \E d \in TrailingDistances : register_trailing_stop(position_id, d)

\* C25: register_stop_loss, register_take_profit and
\* register_trailing_stop called with a position id that has no Position
\* row return False and leave stop_orders as it was: a stop registered
\* earlier under that id or another id stays, unchanged.
C25_UnknownPositionRejected ==
    [][\A id \in DOMAIN InitialPositions :
          (get_position(id) = NonePosition /\ RegistrationFor(id))
              => /\ returned' = [ok |-> FALSE]
                 /\ stop_orders' = stop_orders
                 /\ positions' = positions]_vars

\* a registration has returned False for the id of a deleted position
\* (or for the id that never had one) while the stop registered under
\* the deleted position's id is still in the map
C25_Witness ==
    /\ positions = <<>>
    /\ returned = [ok |-> FALSE]
    /\ DOMAIN stop_orders = {1}
    /\ stop_orders[1].stop_type = "percentage"
    /\ ~stop_orders[1].triggered

\* avg*(1 - pct) for a long and avg*(1 + pct) for a short order, times 100
PercentageThreshold(avg_open_price, o) ==
    IF o.direction = "LONG" THEN avg_open_price * (100 - o.stop_percentage)
    ELSE avg_open_price * (100 + o.stop_percentage)

Crosses(o, price, threshold100) ==
    IF o.direction = "LONG" THEN price * 100 <= threshold100
    ELSE price * 100 >= threshold100

\* the percentage orders a sweep would evaluate: not triggered, position open
LivePercentageIds ==
    {id \in DOMAIN stop_orders :
        /\ stop_orders[id].stop_type = "percentage"
        /\ ~stop_orders[id].triggered
        /\ get_position(id) # NonePosition
        /\ get_position(id).position # 0}

\* a percentage order triggers exactly at the prices that cross base*(1 -+
\* pct), and a sweep reports that threshold; base[id] is the price the
\* threshold is taken from
PercentageTriggersFrom(base) ==
    \A id \in LivePercentageIds : \A cp \in LifePrices :
        LET o == stop_orders[id]
            turn == check_one(id, o, cp)
            threshold == PercentageThreshold(base[id], o)
        IN  /\ turn.info.reported
                  = Crosses(o, cp[get_position(id).code], threshold)
            /\ turn.info.reported => turn.info.stop_price = threshold

EntryAtRegistration == [id \in DOMAIN track |-> track[id].entry]
AverageNow == [id \in DOMAIN positions |-> positions[id].avg_open_price]

\* C27 as stated: the threshold of a percentage StopOrder is
\* entry_price*(1 - pct) (long) or entry_price*(1 + pct) (short) of the
\* entry price at registration, whatever the position's average open
\* price has become since.
C27_ThresholdFixedAtRegistration == PercentageTriggersFrom(EntryAtRegistration)

\* C27: the threshold of a percentage StopOrder is computed at every
\* check as avg_open_price*(1 - pct) (long) or avg_open_price*(1 + pct)
\* (short) from the position's average open price at that check; only
\* pct is fixed at registration.
C27_ThresholdFromPresentAverage == PercentageTriggersFrom(AverageNow)

\* a long 2% stop registered at entry 100 and reported with the threshold
\* 107.8 after the average open price had become 110
C27_Witness ==
    /\ 1 \in DOMAIN stop_orders
    /\ stop_orders[1].stop_type = "percentage"
    /\ stop_orders[1].triggered
    /\ track[1].entry = 100
    /\ 1 \in DOMAIN positions
    /\ positions[1].avg_open_price = 110
    /\ returned = [triggered_stops |->
                      {[position_id |-> 1, stop_price |-> 10780]},
                   cancelled |-> <<>>]

\* the orders a sweep would reach whose position is gone or closed out
OrphanIds ==
    {id \in DOMAIN stop_orders :
        /\ ~stop_orders[id].triggered
        /\ \/ get_position(id) = NonePosition
           \/ get_position(id).position = 0}

\* C30: check_and_trigger removes from stop_orders every not yet
\* triggered StopOrder whose position no longer exists or has size 0 and
\* does not report it, whatever the prices of the snapshot are.
C30_OrphanDiscardedNotReported ==
    /\ [](\A id \in OrphanIds : \A cp \in LifePrices :
             check_one(id, stop_orders[id], cp)
                 = Turn(FALSE, stop_orders[id], NoInfo))
    /\ [][SweepStep =>
             \A id \in OrphanIds :
                 /\ id \notin DOMAIN stop_orders'
                 /\ id \in DOMAIN returned'.cancelled
                 /\ \A info \in returned'.triggered_stops :
                        info.position_id # id]_vars

\* a sweep has discarded, unreported, the fixed-price stop at 108 of the
\* long position that was closed out: every price of the model for its
\* instrument is at or below 108, so the stop's condition was satisfied
C30_Witness ==
    /\ 1 \in DOMAIN positions
    /\ positions[1].position = 0
    /\ stop_orders = <<>>
    /\ "cancelled" \in DOMAIN returned
    /\ returned.triggered_stops = {}
    /\ DOMAIN returned.cancelled = {1}
    /\ returned.cancelled[1].stop_type = "fixed_price"
    /\ returned.cancelled[1].stop_price = 108
    /\ returned.cancelled[1].direction = "LONG"
    /\ \A cp \in LifePrices : cp.a <= returned.cancelled[1].stop_price

\* the same for a position whose row was deleted
C30_DeletedWitness ==
    /\ positions = <<>>
    /\ stop_orders = <<>>
    /\ "cancelled" \in DOMAIN returned
    /\ returned.triggered_stops = {}
    /\ DOMAIN returned.cancelled = {2}
    /\ returned.cancelled[2].stop_type = "fixed_price"
    /\ returned.cancelled[2].stop_price = 92
    /\ \A cp \in LifePrices : cp.b >= returned.cancelled[2].stop_price

\* ---- the trailing distance and its Python type ----
\* A distance is a Python value: None, or a number of a type.  Its value
\* is held in hundredths (500 is 5.00, 5 is 0.05); prices are whole ticks
\* and a threshold is reported in hundredths of a tick.

NoneNumber == [type |-> "None", h |-> 0]
Number(type, h) == [type |-> type, h |-> h]

TrailDistances == {NoneNumber, Number("Decimal", 500), Number("Decimal", 0)}
TrailDistancePcts ==
    {NoneNumber, Number("Decimal", 5), Number("float", 5), Number("int", 100)}
TrailPrices == {90, 95, 100, 105, 110}

\* bool(x) of None or a number
TruthyNumber(x) == x.type # "None" /\ x.h # 0

\* trailing_distance=distance if distance else distance_pct
trailing_distance_of(distance, distance_pct) ==
    IF TruthyNumber(distance) THEN distance ELSE distance_pct

\* the stop price of the trailing branch: extreme -+ distance for a
\* Decimal; otherwise extreme * (Decimal('1') -+ distance), which is a
\* TypeError for a float and for None
trailing_stop_price(direction, extreme, trailing_distance) ==
    IF trailing_distance.type = "Decimal"
    THEN [raised |-> FALSE,
          stop_price |-> IF direction = "LONG"
                         THEN extreme * 100 - trailing_distance.h
                         ELSE extreme * 100 + trailing_distance.h]
    ELSE IF trailing_distance.type = "int"
    THEN [raised |-> FALSE,
          stop_price |-> IF direction = "LONG"
                         THEN extreme * (100 - trailing_distance.h)
                         ELSE extreme * (100 + trailing_distance.h)]
    ELSE [raised |-> TRUE]

InitTrail ==
    /\ ContainerIdle
    /\ \E id \in DOMAIN InitialPositions :
           positions = [x \in {id} |-> InitialPositions[x]]
    /\ stop_orders = <<>>
    /\ returned = [ok |-> FALSE]
    /\ track = <<>>
    /\ replaced = FALSE
    /\ ModuleIdle
    /\ CronIdle
    /\ CondIdle
    /\ RiskIdle
    /\ AlgoIdle

\* register_trailing_stop(position_id, distance, distance_pct) for the
\* position that exists; `extreme` is highest_price of a long and
\* lowest_price of a short order
RegisterTrailing(position_id, distance, distance_pct) ==
    /\ position_id \in DOMAIN positions
    /\ LET position == positions[position_id]
           stop_order ==
               [stop_type |-> "trailing",
                trailing_distance |-> trailing_distance_of(distance, distance_pct),
                direction |-> position.direction,
                triggered |-> FALSE,
                extreme |-> position.avg_open_price]
       IN  stop_orders' = Put(stop_orders, position_id, stop_order)
    /\ track' = Put(track, position_id,
                    [distance |-> distance, distance_pct |-> distance_pct])
    /\ returned' = [ok |-> TRUE]
    /\ replaced' = FALSE
    /\ UNCHANGED positions
    /\ StopOnly

\* check_and_trigger with a price for the position's instrument: the
\* watermark is written before the stop price is computed, so it is moved
\* also by a call that raises
CheckTrailing(position_id, current_price) ==
    /\ position_id \in DOMAIN stop_orders
    /\ ~stop_orders[position_id].triggered
    /\ LET o == stop_orders[position_id]
           extreme == IF o.direction = "LONG" THEN Max(o.extreme, current_price)
                      ELSE Min(o.extreme, current_price)
           sp == trailing_stop_price(o.direction, extreme, o.trailing_distance)
           should_trigger ==
               /\ ~sp.raised
               /\ IF o.direction = "LONG" THEN current_price * 100 <= sp.stop_price
                  ELSE current_price * 100 >= sp.stop_price
       IN  /\ stop_orders' = [stop_orders EXCEPT
                                 ![position_id].extreme = extreme,
                                 ![position_id].triggered = should_trigger]
           /\ returned' = [checked |-> sp, extreme |-> extreme,
                           should_trigger |-> should_trigger]
    /\ replaced' = FALSE
    /\ UNCHANGED <<positions, track>>
    /\ StopOnly

NextTrail ==
    \/ \E id \in DOMAIN InitialPositions :
          \E distance \in TrailDistances, distance_pct \in TrailDistancePcts :
             RegisterTrailing(id, distance, distance_pct)
    \/ \E id \in DOMAIN InitialPositions, p \in TrailPrices :
          CheckTrailing(id, p)

SpecTrail == InitTrail /\ [][NextTrail]_vars

Sign(direction) == IF direction = "LONG" THEN -1 ELSE 1

\* the last step was a check of the order of position id
CheckedOrders ==
    IF "checked" \in DOMAIN returned THEN DOMAIN stop_orders ELSE {}

\* C29: a trailing stop registered with an absolute distance (distance
\* given, distance_pct not) has the threshold extreme - distance (long) or
\* extreme + distance (short); one registered with a fractional distance
\* (distance_pct given, distance not) has the threshold extreme*(1 - pct)
\* (long) or extreme*(1 + pct) (short).
C29_AbsoluteOrFractionalDistance ==
    \A id \in CheckedOrders :
        LET args == track[id]
            direction == stop_orders[id].direction
        IN  /\ (TruthyNumber(args.distance) /\ args.distance_pct = NoneNumber)
                   => /\ ~returned.checked.raised
                      /\ returned.checked.stop_price
                            = returned.extreme * 100
                                 + Sign(direction) * args.distance.h
            /\ (args.distance = NoneNumber /\ TruthyNumber(args.distance_pct))
                   => /\ ~returned.checked.raised
                      /\ returned.checked.stop_price
                            = returned.extreme
                                 * (100 + Sign(direction) * args.distance_pct.h)

\* The absolute half alone: with a distance given as a Decimal the
\* threshold is extreme -+ distance.
C29_AbsoluteDistance ==
    \A id \in CheckedOrders :
        LET args == track[id]
            direction == stop_orders[id].direction
        IN  TruthyNumber(args.distance)
               => /\ ~returned.checked.raised
                  /\ returned.checked.stop_price
                        = returned.extreme * 100
                             + Sign(direction) * args.distance.h

\* distance_pct = Decimal('0.05') on a long position with watermark 110:
\* the threshold is 110 - 0.05 = 109.95, not 110 * 0.95 = 104.5
C29_FractionTakenAsAbsolute ==
    /\ 1 \in CheckedOrders
    /\ track[1] = [distance |-> NoneNumber,
                   distance_pct |-> Number("Decimal", 5)]
    /\ returned.extreme = 110
    /\ ~returned.checked.raised
    /\ returned.checked.stop_price = 10995

\* distance_pct = 0.05 as a float: the check raises
C29_FloatFractionRaises ==
    /\ 1 \in CheckedOrders
    /\ track[1] = [distance |-> NoneNumber,
                   distance_pct |-> Number("float", 5)]
    /\ returned.checked.raised
    /\ stop_orders[1].extreme = 110

\* distance = Decimal('5') on a long position with watermark 110 that
\* triggers at 105
C29_AbsoluteTriggered ==
    /\ 1 \in CheckedOrders
    /\ track[1].distance = Number("Decimal", 500)
    /\ returned.extreme = 110
    /\ returned.checked.stop_price = 10500
    /\ stop_orders[1].triggered


\* ======================================================================
\* BaseModule (strategy/__init__.py): install, uninstall, cron timers,
\* the message reader and the handler tasks
\* ======================================================================
\* A timer handle is a number; `scheduled` holds the handles the loop will
\* still call (armed, not cancelled, not yet fired).  When a timer fires is
\* left open: any armed timer may be the next one to fire.

\* how many calls a behaviour has: install(), uninstall(), timer fires and
\* messages together
MaxCalls == 4

NoneHandle == 0
NoHandleKey == -1    \* the entry has no 'handle' key: reading it is a KeyError

\* callback_fun_args of the module's class: two cron jobs, one channel
Crontabs == <<"* * * * *", "0 9 * * *">>
Channels == {"MSG:*"}

\* croniter(expr, ...) raises on an expression it cannot parse
ValidCron(expr) == \E i \in DOMAIN Crontabs : Crontabs[i] = expr

\* callback_fun_args.items() of two classes: one whose cron expressions
\* are valid, one whose second cron expression is not
ValidArgs ==
    <<[fun_name |-> "on_minute", crontab |-> Crontabs[1]],
      [fun_name |-> "on_open", crontab |-> Crontabs[2]],
      [fun_name |-> "on_message", channel |-> "MSG:*"]>>
BadArgs ==
    <<[fun_name |-> "on_minute", crontab |-> Crontabs[1]],
      [fun_name |-> "on_open", crontab |-> "61 * * * *"],
      [fun_name |-> "on_message", channel |-> "MSG:*"]>>
ModuleClasses == {ValidArgs, BadArgs}

Handles(router) ==
    {router[k].handle : k \in DOMAIN router} \ {NoneHandle, NoHandleKey}

\* io_loop.call_at(...): a handle no one holds and the loop does not have
call_at(router, timers) ==
    LET used == Handles(router) \cup DOMAIN timers
    IN  CHOOSE h \in 1..(Cardinality(used) + 1) : h \notin used

\* handle.cancel(), and a variant that leaves the timer armed
cancel_noop(timers, h) == timers

cancel(timers, h) == [x \in DOMAIN timers \ {h} |-> timers[x]]

Armed(router, timers) == [router |-> router, timers |-> timers]

\* variant of the two lines below that arms without cancelling
arm_without_cancel(a, key) ==
    LET h == call_at(a.router, a.timers)
    IN  Armed([a.router EXCEPT ![key].handle = h], Put(a.timers, h, key))

\* if handle is not None: handle.cancel(); handle = io_loop.call_at(...)
arm(a, key) ==
    LET timers == IF a.router[key].handle # NoneHandle
                  THEN cancel(a.timers, a.router[key].handle)
                  ELSE a.timers
        h == call_at(a.router, timers)
    IN  Armed([a.router EXCEPT ![key].handle = h], Put(timers, h, key))

\* the loop of install() over crontab_router.items()
RECURSIVE arm_all(_, _)
arm_all(a, keys) ==
    IF keys = <<>> THEN a
    ELSE arm_all(arm(a, Head(keys)), Tail(keys))

\* a variant of the loop below that empties the table and the timers
cancel_all_clears(a, keys) == Armed(<<>>, <<>>)

\* the loop of uninstall() over crontab_router.items(); it ends at an
\* entry that has no 'handle' key (KeyError)
RECURSIVE cancel_all(_, _)
cancel_all(a, keys) ==
    IF keys = <<>> THEN a
    ELSE LET key == Head(keys) IN
         IF a.router[key].handle = NoHandleKey THEN a
         ELSE LET b == IF a.router[key].handle # NoneHandle
                       THEN Armed([a.router EXCEPT ![key].handle = NoneHandle],
                                  cancel(a.timers, a.router[key].handle))
                       ELSE a
              IN  cancel_all(b, Tail(keys))

\* the cron expressions of callback_fun_args, in the order of its items()
CronKeys ==
    LET crons == SelectSeq(callback_fun_args,
                           LAMBDA a : "crontab" \in DOMAIN a)
    IN  [i \in DOMAIN crons |-> crons[i].crontab]

\* the cron expressions in crontab_router, in the order of its items()
RouterKeys == SelectSeq(CronKeys, LAMBDA k : k \in DOMAIN crontab_router)

Routers(crons, channels, raised) ==
    [crontab_router |-> crons, channel_router |-> channels, raised |-> raised]

\* the entry crontab_router[key] after its 'func' was assigned and
\* croniter raised: 'handle' is what it was, or is missing
func_only(crons, a) ==
    [func |-> a.fun_name,
     handle |-> IF a.crontab \in DOMAIN crons THEN crons[a.crontab].handle
                ELSE NoHandleKey]

\* a variant of _register_callback with `if 'channel' in args` in the place
\* of `elif`: a callback that has both annotations gets both entries
RECURSIVE _register_callback_both(_, _)
_register_callback_both(r, args) ==
    IF args = <<>> THEN r
    ELSE LET a == Head(args)
             channels == IF "channel" \in DOMAIN a
                         THEN Put(r.channel_router, a.channel, a.fun_name)
                         ELSE r.channel_router
         IN
         IF "crontab" \in DOMAIN a
         THEN IF ValidCron(a.crontab)
              THEN _register_callback_both(
                       Routers(Put(r.crontab_router, a.crontab,
                                   [func |-> a.fun_name, handle |-> NoneHandle]),
                               channels, FALSE),
                       Tail(args))
              ELSE Routers(Put(r.crontab_router, a.crontab,
                               func_only(r.crontab_router, a)),
                           r.channel_router, TRUE)
         ELSE _register_callback_both(
                  Routers(r.crontab_router, channels, FALSE), Tail(args))

\* _register_callback: every cron entry gets its handler and handle = None,
\* every channel its handler; an entry of a key that is there already is
\* assigned again.  croniter raising ends the loop, the entry it was
\* working on is left without the keys not yet assigned
RECURSIVE _register_callback(_, _)
_register_callback(r, args) ==
    IF args = <<>> THEN r
    ELSE LET a == Head(args) IN
         IF "crontab" \in DOMAIN a
         THEN IF ValidCron(a.crontab)
              THEN _register_callback(
                       Routers(Put(r.crontab_router, a.crontab,
                                   [func |-> a.fun_name, handle |-> NoneHandle]),
                               r.channel_router, FALSE),
                       Tail(args))
              ELSE Routers(Put(r.crontab_router, a.crontab,
                               func_only(r.crontab_router, a)),
                           r.channel_router, TRUE)
         ELSE _register_callback(
                  Routers(r.crontab_router,
                          Put(r.channel_router, a.channel, a.fun_name),
                          FALSE),
                  Tail(args))

\* a handler task ended with an exception: the exception is kept in the
\* Task object; the reader and the timers belong to the loop.  The variant
\* lets the exception reach them.
task_exception_propagates(loop) ==
    [subscription |-> [loop.subscription EXCEPT !.readers = 0],
     scheduled |-> <<>>]

task_exception(loop) == loop

\* no install() or uninstall() is suspended
Quiet ==
    coroutines.install = 0 /\ coroutines.punsubscribe = 0
        /\ coroutines.close = 0

InitModule ==
    /\ ContainerIdle
    /\ ModuleNew
    /\ callback_fun_args \in ModuleClasses
    /\ RiskIdle
    /\ AlgoIdle
    /\ StopIdle
    /\ CronIdle
    /\ CondIdle

\* install() up to its await of psubscribe, or to the exception that
\* _register_callback raises
install ==
    /\ calls.made < MaxCalls
    /\ LET r == _register_callback(
                    Routers(crontab_router, channel_router, FALSE),
                    callback_fun_args)
       IN  /\ crontab_router' = r.crontab_router
           /\ channel_router' = r.channel_router
           /\ coroutines' = IF r.raised THEN coroutines
                            ELSE [coroutines EXCEPT !.install = @ + 1]
           /\ calls' = [calls EXCEPT
                           !.made = @ + 1,
                           !.serial = @ /\ Quiet /\ ~initialized,
                           !.last = IF r.raised THEN "install_failed"
                                    ELSE "called"]
    /\ UNCHANGED <<callback_fun_args, initialized, scheduled, subscription,
                   tasks>>
    /\ ModuleOnly

\* psubscribe returned: the rest of install()
InstallSubscribed ==
    /\ coroutines.install > 0
    /\ coroutines' = [coroutines EXCEPT !.install = @ - 1]
    /\ subscription' = [subscription EXCEPT
                           !.patterns = @ \cup DOMAIN channel_router,
                           !.readers = @ + 1]
    /\ LET a == arm_all(Armed(crontab_router, scheduled), RouterKeys)
       IN  /\ crontab_router' = a.router
           /\ scheduled' = a.timers
    /\ initialized' = TRUE
    /\ calls' = [calls EXCEPT !.last = "install_ok"]
    /\ UNCHANGED <<callback_fun_args, channel_router, tasks>>
    /\ ModuleOnly

\* a variant of the action below that marks the module not installed
InstallFailedUninstalls ==
    /\ coroutines.install > 0
    /\ coroutines' = [coroutines EXCEPT !.install = @ - 1]
    /\ calls' = [calls EXCEPT !.last = "install_failed"]
    /\ initialized' = FALSE
    /\ UNCHANGED <<callback_fun_args, channel_router,
                   crontab_router, scheduled, subscription, tasks>>
    /\ ModuleOnly

\* psubscribe raised: install() logs and returns
InstallFailed ==
    /\ coroutines.install > 0
    /\ coroutines' = [coroutines EXCEPT !.install = @ - 1]
    /\ calls' = [calls EXCEPT !.last = "install_failed"]
    /\ UNCHANGED <<callback_fun_args, initialized, channel_router,
                   crontab_router, scheduled, subscription, tasks>>
    /\ ModuleOnly

\* the handler of a cron job or of a message is dispatched as a task
Dispatched(kind, func) ==
    /\ tasks' = tasks + 1
    /\ calls' = [calls EXCEPT
                    !.made = @ + 1,
                    !.late = IF calls.raised THEN @ \cup {kind} ELSE @,
                    !.last = kind,
                    !.func = func]

\* a variant of the action below in which the loop runs the handler to
\* its end before it takes the next timer
_call_next_after_handler(h) ==
    /\ h \in DOMAIN scheduled
    /\ calls.made < MaxCalls
    /\ tasks = 0
    /\ LET key == scheduled[h]
           a == arm(Armed(crontab_router, cancel(scheduled, h)), key)
       IN  /\ crontab_router' = a.router
           /\ scheduled' = a.timers
           /\ Dispatched("fire", crontab_router[key].func)
    /\ UNCHANGED <<callback_fun_args, initialized, channel_router,
                   coroutines, subscription>>
    /\ ModuleOnly

\* the loop calls _call_next(key) for the armed timer h
_call_next(h) ==
    /\ h \in DOMAIN scheduled
    /\ calls.made < MaxCalls
    /\ LET key == scheduled[h]
           a == arm(Armed(crontab_router, cancel(scheduled, h)), key)
       IN  /\ crontab_router' = a.router
           /\ scheduled' = a.timers
           /\ Dispatched("fire", crontab_router[key].func)
    /\ UNCHANGED <<callback_fun_args, initialized, channel_router,
                   coroutines, subscription>>
    /\ ModuleOnly

\* _msg_reader gets a pmessage of a subscribed pattern: json.loads, then
\* channel_router[pattern] as a task; json.loads raising (or a pattern
\* that channel_router does not have) ends the reader, the exception
\* leaving the `async for`
Message(pattern, data) ==
    /\ subscription.readers > 0
    /\ pattern \in subscription.patterns
    /\ calls.made < MaxCalls
    /\ IF data = "json" /\ pattern \in DOMAIN channel_router
       THEN /\ Dispatched("message", channel_router[pattern])
            /\ UNCHANGED subscription
       ELSE /\ subscription' = [subscription EXCEPT !.readers = @ - 1]
            /\ calls' = [calls EXCEPT !.made = @ + 1, !.last = "dropped"]
            /\ UNCHANGED tasks
    /\ UNCHANGED <<callback_fun_args, initialized, channel_router,
                   crontab_router, scheduled, coroutines>>
    /\ ModuleOnly

\* _msg_reader gets a punsubscribe message: break
ReaderUnsubscribed ==
    /\ subscription.readers > 0
    /\ subscription.notices > 0
    /\ subscription' = [subscription EXCEPT !.readers = @ - 1,
                                            !.notices = @ - 1]
    /\ calls' = [calls EXCEPT !.last = "other"]
    /\ UNCHANGED <<callback_fun_args, initialized, channel_router,
                   crontab_router, scheduled, coroutines, tasks>>
    /\ ModuleOnly

\* a dispatched handler returns
HandlerReturned ==
    /\ tasks > 0
    /\ tasks' = tasks - 1
    /\ calls' = [calls EXCEPT !.last = "other"]
    /\ UNCHANGED <<callback_fun_args, initialized, channel_router,
                   crontab_router, scheduled, coroutines, subscription>>
    /\ ModuleOnly

\* a dispatched handler raises
HandlerRaised ==
    /\ tasks > 0
    /\ tasks' = tasks - 1
    /\ LET loop == task_exception([subscription |-> subscription,
                                   scheduled |-> scheduled])
       IN  /\ subscription' = loop.subscription
           /\ scheduled' = loop.scheduled
    /\ calls' = [calls EXCEPT !.raised = TRUE, !.last = "raised"]
    /\ UNCHANGED <<callback_fun_args, initialized, channel_router,
                   crontab_router, coroutines>>
    /\ ModuleOnly

\* uninstall() up to its await of punsubscribe
uninstall ==
    /\ calls.made < MaxCalls
    /\ calls' = [calls EXCEPT !.made = @ + 1,
                              !.serial = @ /\ Quiet,
                              !.overlap = @ \/ coroutines.install > 0,
                              !.last = "called"]
    /\ coroutines' = [coroutines EXCEPT !.punsubscribe = @ + 1]
    /\ UNCHANGED <<callback_fun_args, initialized, channel_router,
                   crontab_router, scheduled, subscription, tasks>>
    /\ ModuleOnly

\* punsubscribe returned: uninstall() up to its await of close
UninstallUnsubscribed ==
    /\ coroutines.punsubscribe > 0
    /\ coroutines' = [coroutines EXCEPT !.punsubscribe = @ - 1,
                                        !.close = @ + 1]
    /\ subscription' = [subscription EXCEPT !.patterns = {}, !.notices = 1]
    /\ calls' = [calls EXCEPT !.last = "other"]
    /\ UNCHANGED <<callback_fun_args, initialized, channel_router,
                   crontab_router, scheduled, tasks>>
    /\ ModuleOnly

\* close returned: the rest of uninstall(); the loop over crontab_router
\* raises KeyError at an entry without 'handle'
UninstallClosed ==
    /\ coroutines.close > 0
    /\ coroutines' = [coroutines EXCEPT !.close = @ - 1]
    /\ subscription' = [subscription EXCEPT !.closed = TRUE]
    /\ LET a == cancel_all(Armed(crontab_router, scheduled), RouterKeys)
           raised == \E k \in DOMAIN crontab_router :
                         crontab_router[k].handle = NoHandleKey
       IN  /\ crontab_router' = a.router
           /\ scheduled' = a.timers
           /\ initialized' = IF raised THEN initialized ELSE FALSE
           /\ calls' = [calls EXCEPT
                           !.last = IF raised THEN "uninstall_failed"
                                    ELSE IF initialized THEN "uninstall_ok"
                                    ELSE "uninstall_noop"]
    /\ UNCHANGED <<callback_fun_args, channel_router, tasks>>
    /\ ModuleOnly

\* punsubscribe or close raised: uninstall() logs and returns
UninstallFailed ==
    /\ \/ /\ coroutines.punsubscribe > 0
          /\ coroutines' = [coroutines EXCEPT !.punsubscribe = @ - 1]
       \/ /\ coroutines.close > 0
          /\ coroutines' = [coroutines EXCEPT !.close = @ - 1]
    /\ calls' = [calls EXCEPT !.last = "uninstall_failed"]
    /\ UNCHANGED <<callback_fun_args, initialized, channel_router,
                   crontab_router, scheduled, subscription, tasks>>
    /\ ModuleOnly

NextModule ==
    \/ install
    \/ InstallSubscribed
    \/ InstallFailed
    \/ \E h \in DOMAIN scheduled : _call_next(h)
    \/ \E pattern \in subscription.patterns :
          \E data \in {"json", "malformed"} : Message(pattern, data)
    \/ ReaderUnsubscribed
    \/ HandlerReturned
    \/ HandlerRaised
    \/ uninstall
    \/ UninstallUnsubscribed
    \/ UninstallClosed
    \/ UninstallFailed

SpecModule == InitModule /\ [][NextModule]_vars

PendingTimers(key) == {h \in DOMAIN scheduled : scheduled[h] = key}

\* C10: for each cron expression at most one timer is pending at any
\* moment, whatever the sequence of install(), timer fires and
\* uninstall(), install() called more than once included.
C10_AtMostOnePendingTimer ==
    \A i \in DOMAIN Crontabs : Cardinality(PendingTimers(Crontabs[i])) <= 1


\* C11: an exception raised inside a dispatched channel handler or cron
\* handler does not end the message reader and does not cancel or move a
\* pending cron timer; messages and cron fires that come later are still
\* dispatched.
C11_HandlerExceptionIsIsolated ==
    [][(calls'.last = "raised" /\ tasks' < tasks)
          => /\ subscription' = subscription
             /\ scheduled' = scheduled
             /\ crontab_router' = crontab_router
             /\ initialized' = initialized]_vars

\* after a handler raised, a message and a cron fire were dispatched
C11_Witness ==
    /\ calls.raised
    /\ calls.late = {"fire", "message"}
    /\ subscription.readers > 0


OneTimerPerCronJob ==
    \A i \in DOMAIN CronKeys : Cardinality(PendingTimers(CronKeys[i])) = 1

UninstallReturned == calls.last \in {"uninstall_ok", "uninstall_noop"}

ModuleState ==
    <<initialized, channel_router, crontab_router, scheduled,
      subscription.patterns>>

TimerFired == tasks' = tasks + 1 /\ scheduled' # scheduled

\* after the step the job of the fired timer h has its next timer armed,
\* and crontab_router holds its handle
NextFireArmed(h) ==
    LET key == scheduled[h] IN
    /\ key \in DOMAIN crontab_router'
    /\ crontab_router'[key].handle \in DOMAIN scheduled'
    /\ crontab_router'[key].handle # h
    /\ scheduled'[crontab_router'[key].handle] = key

\* C32: on every cron fire the timer of the job's next fire is armed in
\* the step that dispatches the handler, and the handler is a task of its
\* own: an armed timer can fire whatever the number of handler tasks that
\* have not ended, so a handler that runs longer than the interval
\* neither delays nor suppresses the next fire of its job.
C32_NextFireArmedHandlerIndependent ==
    /\ [](\A h \in DOMAIN scheduled :
              calls.made < MaxCalls => ENABLED _call_next(h))
    /\ [][TimerFired
             => \E h \in DOMAIN scheduled \ DOMAIN scheduled' :
                    NextFireArmed(h)]_vars

\* install(), then the first job fired twice, the second time while the
\* handler of the first fire had not ended: both handler tasks are there
\* and the job's timer is armed a third time (install() armed handles 1
\* and 2, the first fire armed 3, the second fire armed 1 again)
C32_Witness ==
    /\ callback_fun_args = ValidArgs
    /\ calls.made = 3
    /\ calls.last = "fire"
    /\ calls.serial
    /\ tasks = 2
    /\ DOMAIN crontab_router = {Crontabs[1], Crontabs[2]}
    /\ crontab_router[Crontabs[1]].handle = 1
    /\ crontab_router[Crontabs[2]].handle = 2
    /\ scheduled = (1 :> Crontabs[1]) @@ (2 :> Crontabs[2])

\* ---- classes whose callbacks share a key or have two annotations ----
\* a callback annotated with a channel and a crontab, next to a channel
\* callback
BothArgs ==
    <<[fun_name |-> "on_both", crontab |-> Crontabs[1], channel |-> "BOTH:*"],
      [fun_name |-> "on_message", channel |-> "MSG:*"]>>

\* two callbacks on one cron expression and two on one channel pattern
SharedArgs ==
    <<[fun_name |-> "on_minute", crontab |-> Crontabs[1]],
      [fun_name |-> "on_minute_too", crontab |-> Crontabs[1]],
      [fun_name |-> "on_message", channel |-> "MSG:*"],
      [fun_name |-> "on_message_too", channel |-> "MSG:*"]>>

RoutingClasses == {BothArgs, SharedArgs}

InitRouting ==
    /\ ContainerIdle
    /\ ModuleNew
    /\ callback_fun_args \in RoutingClasses
    /\ RiskIdle
    /\ AlgoIdle
    /\ StopIdle
    /\ CronIdle
    /\ CondIdle

SpecRouting == InitRouting /\ [][NextModule]_vars

\* the names bound in the routing tables
BoundOnCron == {crontab_router[k].func : k \in DOMAIN crontab_router}
BoundOnChannel == {channel_router[p] : p \in DOMAIN channel_router}

\* _register_callback has run (every class here has a callback)
RoutersWritten == crontab_router /= <<>> \/ channel_router /= <<>>

\* the callbacks that have both annotations
BothAnnotated ==
    {i \in DOMAIN callback_fun_args :
        {"crontab", "channel"} \subseteq DOMAIN callback_fun_args[i]}

\* C34: a callback annotated with a channel and a crontab is registered
\* as a cron job only: once _register_callback has run it has its entry
\* in crontab_router and none in channel_router, its channel is not
\* subscribed, and no message dispatches it.
C34_BothAnnotationsCronOnly ==
    /\ [](RoutersWritten =>
             \A i \in BothAnnotated :
                 LET a == callback_fun_args[i] IN
                 /\ a.crontab \in DOMAIN crontab_router
                 /\ crontab_router[a.crontab].func = a.fun_name
                 /\ a.fun_name \notin BoundOnChannel
                 /\ a.channel \notin DOMAIN channel_router
                 /\ a.channel \notin subscription.patterns)
    /\ [][(calls'.last = "message" /\ calls'.made > calls.made)
             => \A i \in BothAnnotated :
                    calls'.func /= callback_fun_args[i].fun_name]_vars

\* the callback with both annotations was dispatched by its timer, after
\* an install() that subscribed the other callback's pattern only
C34_Witness ==
    /\ callback_fun_args = BothArgs
    /\ calls.last = "fire"
    /\ calls.func = "on_both"
    /\ subscription.patterns = {"MSG:*"}
    /\ DOMAIN channel_router = {"MSG:*"}
    /\ crontab_router[Crontabs[1]].func = "on_both"

\* C35: if uninstall() is called while install() is suspended at its
\* subscribe step, then once both have finished the module is not
\* installed: initialized = False and no cron timer is pending.  (The
\* two calls are the only ones, and uninstall() ran to its end without an
\* error: the connection is closed.)
C35_OverlappingUninstallWins ==
    (calls.made = 2 /\ calls.overlap /\ Quiet /\ subscription.closed)
        => (~initialized /\ scheduled = <<>>)

\* install() was called, uninstall() was called and ran to its end while
\* install() was suspended, then psubscribe returned and install() armed
\* the timers and set initialized: nothing will uninstall the module
C35_InstalledAfterUninstall ==
    /\ callback_fun_args = ValidArgs
    /\ calls.made = 2
    /\ calls.overlap
    /\ Quiet
    /\ calls.last = "install_ok"
    /\ subscription.closed
    /\ initialized
    /\ Cardinality(DOMAIN scheduled) = 2

\* C36: a message whose payload cannot be decoded (or whose pattern has
\* no handler) does not end the message read loop: the reader that got it
\* is still reading afterwards.
C36_BadMessageKeepsReader ==
    [][(calls'.last = "dropped" /\ calls'.made > calls.made)
          => subscription'.readers = subscription.readers]_vars

\* the one reader of an installed module ended at a payload that is not
\* JSON: the pattern is subscribed and no one reads
C36_ReaderEnded ==
    /\ calls.serial
    /\ calls.last = "dropped"
    /\ initialized
    /\ subscription.patterns = {"MSG:*"}
    /\ subscription.readers = 0
    /\ subscription.notices = 0

\* C37: every handler of callback_fun_args is bound by
\* _register_callback, also when several share a cron expression or a
\* channel pattern.
C37_EveryHandlerBound ==
    RoutersWritten =>
        \A i \in DOMAIN callback_fun_args :
            callback_fun_args[i].fun_name \in BoundOnCron \cup BoundOnChannel

\* the last callback of a key in callback_fun_args.items()
LastOfKey(kind, key) ==
    LET same == {i \in DOMAIN callback_fun_args :
                    /\ kind \in DOMAIN callback_fun_args[i]
                    /\ callback_fun_args[i][kind] = key
                    /\ kind = "channel" =>
                          "crontab" \notin DOMAIN callback_fun_args[i]}
    IN  callback_fun_args[CHOOSE i \in same : \A j \in same : j <= i].fun_name

\* What _register_callback does: one handler per key, the last one of
\* callback_fun_args.items() that has the key; a fire or a message
\* dispatches that one.
C37_LastHandlerOfKeyBound ==
    /\ [](/\ \A k \in DOMAIN crontab_router :
                crontab_router[k].func = LastOfKey("crontab", k)
          /\ \A p \in DOMAIN channel_router :
                channel_router[p] = LastOfKey("channel", p))
    /\ [][calls'.made > calls.made /\ calls'.last \in {"fire", "message"}
             => calls'.func \in BoundOnCron \cup BoundOnChannel]_vars

\* two callbacks on one cron expression and two on one pattern: after
\* install() the first of each pair is in no routing table
C37_FirstHandlerNotBound ==
    /\ callback_fun_args = SharedArgs
    /\ calls.last = "install_ok"
    /\ initialized
    /\ BoundOnCron = {"on_minute_too"}
    /\ BoundOnChannel = {"on_message_too"}


\* ======================================================================
\* BaseModule._get_next (strategy/__init__.py): cron time -> loop time
\* ======================================================================
\* Times are whole seconds.  The anchors are the pair (self.time,
\* self.loop_time) that _register_callback takes; the iterator is the
\* croniter of one job, started at the wall-clock anchor.

MaxGetNext == 3

WallTimes == {0, 1705300800, 1705300830, 1705304399}
LoopTimes == {0, 100, 5000, 86400}
CronPeriods == {60, 3600}       \* "* * * * *" and "0 * * * *"
EpochShifts == {-1705300800, 3600, 400000000}

\* croniter.get_next(): the first fire time after the previous one
get_next(period, after) == ((after \div period) + 1) * period

\* variant that takes the cron time as the loop time
_get_next_wall_clock(loop_time, time, t) == t

\* return self.loop_time + (iter.get_next() - self.time)
_get_next(loop_time, time, t) == loop_time + (t - time)

InitCron ==
    /\ ContainerIdle
    /\ cron \in {[calls |-> 0, time |-> w, loop_time |-> l, period |-> p,
                  iter |-> w, result |-> l] :
                 w \in WallTimes, l \in LoopTimes, p \in CronPeriods}
    /\ RiskIdle
    /\ AlgoIdle
    /\ StopIdle
    /\ ModuleIdle
    /\ CondIdle

GetNext ==
    /\ cron.calls < MaxGetNext
    /\ LET t == get_next(cron.period, cron.iter)
       IN  cron' = [cron EXCEPT !.calls = @ + 1, !.iter = t,
                                !.result = _get_next(cron.loop_time,
                                                     cron.time, t)]
    /\ CronOnly

NextCron == GetNext

SpecCron == InitCron /\ [][NextCron]_vars

\* C15: _get_next returns loop_time + (t - wall_time) for the anchors
\* (wall_time, loop_time) and the iterator's next fire time t; the delay
\* on the loop clock is t - wall_time, the same for anchors and fire time
\* moved together to another epoch (100, 1705300800, 1705300860 -> 160).
C15_GetNextIsAnchoredDelay ==
    cron.calls > 0
       => /\ cron.result = cron.loop_time + (cron.iter - cron.time)
          /\ cron.result - cron.loop_time = cron.iter - cron.time
          /\ \A d \in EpochShifts :
                 _get_next(cron.loop_time, cron.time + d, cron.iter + d)
                     = cron.result
          /\ (cron.loop_time = 100 /\ cron.time = 1705300800
                 /\ cron.iter = 1705300860) => cron.result = 160

C15_Witness ==
    /\ cron.calls = 1
    /\ cron.loop_time = 100
    /\ cron.time = 1705300800
    /\ cron.iter = 1705300860
    /\ cron.result = 160


\* ======================================================================
\* ConditionalOrderEngine (trade/conditional_order.py)
\* ======================================================================
\* Times are whole seconds of timezone.now().  An order is an object: the
\* engine's map holds references, and execute_order works on the object it
\* was given, in the map or not.

MaxCondTime == 3        \* the clock runs from 0 to this
MaxIcebergSlices == 4   \* passes of the iceberg loop followed by the model

\* Condition(type, value, instrument)
PriceGE == [type |-> "price_ge", value |-> 100, instrument |-> "a"]
PriceLT == [type |-> "price_lt", value |-> 100, instrument |-> "a"]
TimeGT == [type |-> "time_gt", value |-> 0, instrument |-> "None"]

ConditionLists == {<<>>, <<PriceGE>>, <<PriceLT, TimeGT>>}
Windows == {<<NoneTime, NoneTime>>, <<1, 2>>, <<NoneTime, 1>>, <<2, NoneTime>>}
TotalVolumes == {0, 3, 4}
DisplayVolumes == {0, 2, 5}
CachedPrices == {90, 100}
PriceCaches == {<<>>} \cup {[code \in {"a"} |-> x] : x \in CachedPrices}

\* ConditionalOrder(...) with the dataclass defaults for what is not given
ConditionalOrder(conditions, condition_logic, start_time, end_time, is_iceberg, display_volume, total_volume) ==
    [conditions |-> conditions, condition_logic |-> condition_logic,
     start_time |-> start_time, end_time |-> end_time,
     is_active |-> TRUE, is_triggered |-> FALSE, triggered_time |-> NoneTime,
     is_iceberg |-> is_iceberg, display_volume |-> display_volume,
     total_volume |-> total_volume]

\* a conditional order with a window, and an iceberg order as iceberg_order()
\* builds it (no condition)
CondTemplates ==
    {ConditionalOrder(c, l, w[1], w[2], FALSE, 0, 0) :
        c \in ConditionLists, l \in {"AND", "OR"}, w \in Windows}

IcebergTemplates ==
    {ConditionalOrder(<<>>, "AND", NoneTime, NoneTime, TRUE, d, t) :
        d \in DisplayVolumes, t \in TotalVolumes}

\* what makes the body of _check_single_condition raise: Decimal(str(None))
\* for a cached instrument (InvalidOperation), now > None (TypeError)
Raises(condition, cache) ==
    \/ /\ condition.type \in {"price_ge", "price_lt"}
       /\ condition.instrument \in DOMAIN cache
       /\ condition.value = NoneDecimal
    \/ /\ condition.type = "time_gt"
       /\ condition.value = NoneTime

\* try: ... except Exception: return False; a type with no branch (a
\* position atom) falls through to return False
_check_single_condition(condition, t, cache) ==
    IF Raises(condition, cache) THEN FALSE ELSE
    CASE condition.type = "price_ge" ->
            IF condition.instrument \notin DOMAIN cache THEN FALSE
            ELSE cache[condition.instrument] >= condition.value
      [] condition.type = "price_lt" ->
            IF condition.instrument \notin DOMAIN cache THEN FALSE
            ELSE cache[condition.instrument] < condition.value
      [] condition.type = "time_gt" -> t > condition.value
      [] OTHER -> FALSE

\* A variant that does not look at the validity window.
check_conditions_ignores_window(co, t, cache) ==
    IF co.conditions = <<>> THEN FALSE
    ELSE LET results == [i \in 1..Len(co.conditions) |->
                           _check_single_condition(co.conditions[i], t, cache)]
         IN  IF co.condition_logic = "AND"
             THEN \A i \in DOMAIN results : results[i]
             ELSE \E i \in DOMAIN results : results[i]

\* a variant of the loop below that stops at the first atom that decides
\* the result (a false atom for AND, a true one for OR)
RECURSIVE atom_results_short_circuit(_, _, _)
atom_results_short_circuit(co, t, cache) ==
    IF co.conditions = <<>> THEN <<>>
    ELSE LET result == _check_single_condition(Head(co.conditions), t, cache)
         IN  IF result = (co.condition_logic /= "AND") THEN <<result>>
             ELSE <<result>> \o atom_results_short_circuit(
                                    [co EXCEPT !.conditions = Tail(@)], t, cache)

\* for condition in order.conditions: results.append(...)
atom_results(co, t, cache) ==
    [i \in 1..Len(co.conditions) |->
        _check_single_condition(co.conditions[i], t, cache)]

check_conditions(co, t, cache) ==
    IF co.conditions = <<>> THEN FALSE
    ELSE IF co.start_time /= NoneTime /\ t < co.start_time THEN FALSE
    ELSE IF co.end_time /= NoneTime /\ t > co.end_time THEN FALSE
    ELSE LET results == atom_results(co, t, cache)
         IN  IF co.condition_logic = "AND"
             THEN \A i \in DOMAIN results : results[i]
             ELSE \E i \in DOMAIN results : results[i]

\* A variant that removes the triggered orders only.
_cleanup_orders_keeps_expired(ids, objs, t) ==
    ids \ {id \in ids : objs[id].is_triggered}

\* _cleanup_orders: the ids left in the map
_cleanup_orders(ids, objs, t) ==
    ids \ {id \in ids :
              \/ objs[id].is_triggered
              \/ objs[id].end_time /= NoneTime /\ t > objs[id].end_time}

InitCond ==
    /\ ContainerIdle
    /\ CondNew
    /\ cond_orders \in [{"c1"} -> CondTemplates]
    /\ RiskIdle
    /\ AlgoIdle
    /\ StopIdle
    /\ ModuleIdle
    /\ CronIdle

\* order.instrument is set and order.order_id is given
register_order(id) ==
    /\ id \notin engine_orders
    /\ engine_orders' = engine_orders \cup {id}
    /\ UNCHANGED <<cond_orders, price_cache, cond_now, found, iceberg>>
    /\ CondOnly

\* del self.orders[order_id]; return True.  The order object is not
\* touched.  (iceberg.cancelled records that the call was made while the
\* order's execution was in its loop.)
cancel_order(id) ==
    /\ id \in engine_orders
    /\ engine_orders' = engine_orders \ {id}
    /\ iceberg' = IF iceberg.pc \in {"loop", "sleep"} /\ iceberg.id = id
                  THEN [iceberg EXCEPT !.cancelled = TRUE]
                  ELSE iceberg
    /\ UNCHANGED <<cond_orders, price_cache, cond_now, found>>
    /\ CondOnly

update_price(code, price) ==
    /\ price_cache' = [c \in DOMAIN price_cache \cup {code} |->
                         IF c = code THEN price ELSE price_cache[c]]
    /\ price_cache' /= price_cache
    /\ UNCHANGED <<cond_orders, engine_orders, cond_now, found, iceberg>>
    /\ CondOnly

CondTick ==
    /\ cond_now < MaxCondTime
    /\ cond_now' = cond_now + 1
    /\ UNCHANGED <<cond_orders, engine_orders, price_cache, found, iceberg>>
    /\ CondOnly

\* the caller of the engine clears is_active on an order object
Deactivate(id) ==
    /\ cond_orders[id].is_active
    /\ cond_orders' = [cond_orders EXCEPT ![id].is_active = FALSE]
    /\ UNCHANGED <<engine_orders, price_cache, cond_now, found, iceberg>>
    /\ CondOnly

\* one pass of monitoring_loop: the checks, then _cleanup_orders
monitoring_loop ==
    /\ found' = [turn |-> ~found.turn,
                 ids |-> {id \in engine_orders :
                            /\ cond_orders[id].is_active
                            /\ ~cond_orders[id].is_triggered
                            /\ check_conditions(cond_orders[id], cond_now, price_cache)},
                 removed |-> engine_orders
                               \ _cleanup_orders(engine_orders, cond_orders, cond_now)]
    /\ engine_orders' = _cleanup_orders(engine_orders, cond_orders, cond_now)
    /\ UNCHANGED <<cond_orders, price_cache, cond_now, iceberg>>
    /\ CondOnly

\* execute_order up to its first suspension: an ordinary order returns True
\* at once, an iceberg order enters the loop.  order_func is called nowhere.
execute_order(id) ==
    /\ iceberg.pc = "idle"
    /\ cond_orders' = [cond_orders EXCEPT ![id].is_triggered = TRUE,
                                          ![id].triggered_time = cond_now]
    /\ iceberg' = IF cond_orders[id].is_iceberg
                  THEN [pc |-> "loop", id |-> id,
                        remaining |-> cond_orders[id].total_volume,
                        slices |-> <<>>, placed |-> <<>>,
                        cancelled |-> FALSE]
                  ELSE [pc |-> "returned", id |-> id, remaining |-> 0,
                        slices |-> <<>>, placed |-> <<>>,
                        cancelled |-> FALSE]
    /\ UNCHANGED <<engine_orders, price_cache, cond_now, found>>
    /\ CondOnly

\* A variant that does not look at is_active.
IcebergContinues_ignores_is_active(co, remaining) == remaining > 0

\* while remaining > 0 and order.is_active
IcebergContinues(co, remaining) == remaining > 0 /\ co.is_active

\* one pass of the loop of _execute_iceberg_order up to asyncio.sleep(1), or
\* the return when the loop condition fails; slices are the volumes the loop
\* computes, placed the calls of order_func
IcebergStep ==
    /\ iceberg.pc = "loop"
    /\ IF IcebergContinues(cond_orders[iceberg.id], iceberg.remaining)
       THEN /\ Len(iceberg.slices) < MaxIcebergSlices
            /\ LET volume == Min(cond_orders[iceberg.id].display_volume,
                                 iceberg.remaining)
               IN  iceberg' = [iceberg EXCEPT !.pc = "sleep",
                                              !.slices = Append(@, volume),
                                              !.remaining = @ - volume]
       ELSE iceberg' = [iceberg EXCEPT !.pc = "returned"]
    /\ UNCHANGED <<cond_orders, engine_orders, price_cache, cond_now, found>>
    /\ CondOnly

\* asyncio.sleep(1) ends
IcebergWake ==
    /\ iceberg.pc = "sleep"
    /\ iceberg' = [iceberg EXCEPT !.pc = "loop"]
    /\ UNCHANGED <<cond_orders, engine_orders, price_cache, cond_now, found>>
    /\ CondOnly

NextCond ==
    \/ \E id \in DOMAIN cond_orders : register_order(id)
    \/ \E id \in DOMAIN cond_orders : cancel_order(id)
    \/ \E price \in CachedPrices : update_price("a", price)
    \/ CondTick
    \/ \E id \in DOMAIN cond_orders : Deactivate(id)
    \/ monitoring_loop
    \/ \E id \in DOMAIN cond_orders : execute_order(id)

SpecCond == InitCond /\ [][NextCond]_vars

\* ---- an iceberg order and its execution ----
InitIceberg ==
    /\ ContainerIdle
    /\ CondNew
    /\ cond_orders \in [{"i1"} -> IcebergTemplates]
    /\ RiskIdle
    /\ AlgoIdle
    /\ StopIdle
    /\ ModuleIdle
    /\ CronIdle

NextIceberg ==
    \/ \E id \in DOMAIN cond_orders : register_order(id)
    \/ \E id \in DOMAIN cond_orders : cancel_order(id)
    \/ \E id \in DOMAIN cond_orders : Deactivate(id)
    \/ \E id \in DOMAIN cond_orders : execute_order(id)
    \/ IcebergStep
    \/ IcebergWake

SpecIceberg == InitIceberg /\ [][NextIceberg]_vars

Expired(co, t) == co.end_time /= NoneTime /\ t > co.end_time

OutsideWindow(co, t) ==
    \/ co.start_time /= NoneTime /\ t < co.start_time
    \/ Expired(co, t)

\* C18: a ConditionalOrder never triggers outside its validity window:
\* check_conditions is False at every time before start_time or after
\* end_time, for every price cache, and a monitoring pass finds no such
\* order triggering; after a monitoring pass no order whose end_time is
\* past is left in the engine.
C18_NoTriggerOutsideWindow ==
    /\ [](\A id \in DOMAIN cond_orders :
             \A t \in 0..MaxCondTime : \A cache \in PriceCaches :
                OutsideWindow(cond_orders[id], t)
                    => ~check_conditions(cond_orders[id], t, cache))
    /\ [][found'.turn /= found.turn
            => /\ \A id \in found'.ids : ~OutsideWindow(cond_orders'[id], cond_now')
               /\ \A id \in engine_orders' : ~Expired(cond_orders'[id], cond_now')]_vars

\* An order whose conditions hold at every time after 0, not found by the
\* pass made after its end_time and removed by that pass.
C18_Witness ==
    /\ cond_now = 3
    /\ cond_orders["c1"].end_time = 2
    /\ cond_orders["c1"].conditions = <<PriceLT, TimeGT>>
    /\ cond_orders["c1"].condition_logic = "OR"
    /\ cond_orders["c1"].is_active
    /\ ~cond_orders["c1"].is_triggered
    /\ check_conditions_ignores_window(cond_orders["c1"], cond_now, price_cache)
    /\ found.ids = {}
    /\ found.removed = {"c1"}
    /\ "c1" \notin engine_orders

\* the volumes the loop has computed, each against what was left before it
SlicesAreDisplayOrRest(ex, co) ==
    \A i \in 1..Len(ex.slices) :
        ex.slices[i]
            = Min(co.display_volume,
                  co.total_volume - SumSeq(SubSeq(ex.slices, 1, i - 1)))

\* C19: iceberg execution submits (calls order_func with) slices of size
\* min(display_volume, remaining) one after another, pausing between them,
\* until total_volume is exhausted: when it returns for an order that stayed
\* active, the slices submitted sum exactly to total_volume; once the order
\* is deactivated no further slice is submitted and none is compensated.
C19_IcebergSubmitsTotal ==
    /\ [](iceberg.pc /= "idle" =>
            /\ Len(iceberg.placed) = Len(iceberg.slices)
            /\ (/\ iceberg.pc = "returned"
                /\ cond_orders[iceberg.id].is_iceberg
                /\ cond_orders[iceberg.id].is_active)
                  => SumSeq(iceberg.placed) = cond_orders[iceberg.id].total_volume)
    /\ [][(iceberg.pc /= "idle" /\ ~cond_orders[iceberg.id].is_active)
             => iceberg'.placed = iceberg.placed]_vars

\* What the loop does compute: volumes of min(display_volume, remaining),
\* one per pass with a sleep after each, summing to total_volume when it
\* returns for an order that stayed active; none after a deactivation, and
\* the volumes computed before stay.
C19_LoopComputesSlices ==
    /\ [](iceberg.pc /= "idle" =>
            /\ SlicesAreDisplayOrRest(iceberg, cond_orders[iceberg.id])
            /\ iceberg.remaining
                  = cond_orders[iceberg.id].total_volume * (IF cond_orders[iceberg.id].is_iceberg THEN 1 ELSE 0)
                      - SumSeq(iceberg.slices)
            /\ (/\ iceberg.pc = "returned"
                /\ cond_orders[iceberg.id].is_iceberg
                /\ cond_orders[iceberg.id].is_active)
                  => SumSeq(iceberg.slices) = cond_orders[iceberg.id].total_volume)
    /\ [][(iceberg.pc /= "idle" /\ ~cond_orders[iceberg.id].is_active)
             => iceberg'.slices = iceberg.slices]_vars
    /\ [][iceberg.pc /= "idle"
             => \E q \in {<<>>} \cup {<<v>> : v \in 0..5} :
                   iceberg'.slices = iceberg.slices \o q]_vars
    /\ [][(iceberg.pc /= "idle" /\ Len(iceberg'.slices) > Len(iceberg.slices))
             => iceberg'.pc = "sleep"]_vars

\* An execution that returned for an active order of total 3 and display 2:
\* the loop computed 2 and 1, and order_func was not called.
C19_NothingSubmitted ==
    /\ iceberg.pc = "returned"
    /\ cond_orders[iceberg.id].is_iceberg
    /\ cond_orders[iceberg.id].is_active
    /\ cond_orders[iceberg.id].total_volume = 3
    /\ iceberg.slices = <<2, 1>>
    /\ iceberg.placed = <<>>

\* An execution stopped by a deactivation after its first slice.
C19_DeactivatedMidway ==
    /\ iceberg.pc = "returned"
    /\ ~cond_orders[iceberg.id].is_active
    /\ cond_orders[iceberg.id].total_volume = 4
    /\ iceberg.slices = <<2>>
    /\ iceberg.remaining = 2

\* a step made by one pass of monitoring_loop
MonitoringPass == found'.turn /= found.turn

\* C23: a ConditionalOrder that has triggered (the last monitoring pass
\* found its conditions satisfied, or execute_order marked it triggered)
\* is not in the engine's map after the following monitoring pass and is
\* not found triggering by that pass.
C23_TriggeredGoneAfterNextPass ==
    [][MonitoringPass =>
          \A id \in engine_orders :
              (id \in found.ids \/ cond_orders[id].is_triggered)
                  => id \notin engine_orders' /\ id \notin found'.ids]_vars

\* The part that execute_order and _cleanup_orders do provide: an order
\* marked triggered by execute_order is passed over by the checks of the
\* next pass and removed by its cleanup.
C23_MarkedGoneAfterNextPass ==
    [][MonitoringPass =>
          \A id \in engine_orders :
              cond_orders[id].is_triggered
                  => /\ id \notin engine_orders'
                     /\ id \notin found'.ids
                     /\ id \in found'.removed]_vars

\* A pass found the order's conditions satisfied and left it in the map,
\* not marked: the next pass finds it again.
C23_FoundAndLeft ==
    /\ found.ids = {"c1"}
    /\ found.removed = {}
    /\ "c1" \in engine_orders
    /\ ~cond_orders["c1"].is_triggered
    /\ cond_orders["c1"].end_time = NoneTime

\* An order marked by execute_order, removed by the pass after it.
C23_MarkedRemoved ==
    /\ cond_orders["c1"].is_triggered
    /\ found.removed = {"c1"}
    /\ found.ids = {}
    /\ "c1" \notin engine_orders
    /\ cond_orders["c1"].end_time = NoneTime

\* ---- an iceberg execution that is given its turns ----
\* the loop goes on whenever it can: the pass after a sleep is taken, and
\* asyncio.sleep(1) ends
SpecIcebergFair ==
    /\ InitIceberg
    /\ [][NextIceberg]_vars
    /\ WF_vars(IcebergStep)
    /\ WF_vars(IcebergWake)

C39_TerminatesWithPositiveDisplay ==
    /\ (iceberg.pc = "loop" /\ cond_orders["i1"].display_volume > 0)
          ~> (iceberg.pc = "returned")
    /\ [][(iceberg.pc = "loop" /\ iceberg'.pc = "sleep"
             /\ cond_orders["i1"].display_volume > 0)
            => iceberg'.remaining < iceberg.remaining]_vars

\* an active order of total 3 with the default display_volume 0: every
\* pass computed the volume 0 and remaining is 3 as at the start
C39_NoProgress ==
    /\ iceberg.pc = "sleep"
    /\ cond_orders["i1"].is_active
    /\ cond_orders["i1"].display_volume = 0
    /\ cond_orders["i1"].total_volume = 3
    /\ iceberg.slices = <<0, 0, 0, 0>>
    /\ iceberg.remaining = 3

C40_SlicedAfterCancel ==
    /\ iceberg.pc = "returned"
    /\ iceberg.cancelled
    /\ "i1" \notin engine_orders
    /\ cond_orders["i1"].is_active
    /\ cond_orders["i1"].total_volume = 4
    /\ iceberg.slices = <<2, 2>>

\* ---- the atoms of one order and their combination ----
\* atoms on an instrument that has no cached price, with a value that
\* makes the comparison raise, and of a type that has no branch
PriceUncached == [type |-> "price_ge", value |-> 100, instrument |-> "b"]
PriceUnparsable == [type |-> "price_lt", value |-> NoneDecimal, instrument |-> "a"]
TimeNone == [type |-> "time_gt", value |-> NoneTime, instrument |-> "None"]
PositionGT == [type |-> "position_gt", value |-> 1, instrument |-> "a"]

Atoms == {PriceGE, PriceLT, TimeGT, PriceUncached, PriceUnparsable, TimeNone, PositionGT}

AtomTemplates ==
    {ConditionalOrder(c, l, NoneTime, NoneTime, FALSE, 0, 0) :
        c \in {<<a>> : a \in Atoms} \cup {<<a, b>> : a \in Atoms, b \in Atoms},
        l \in {"AND", "OR"}}

InitAtoms ==
    /\ ContainerIdle
    /\ CondNew
    /\ cond_orders \in [{"c1"} -> AtomTemplates]
    /\ RiskIdle
    /\ AlgoIdle
    /\ StopIdle
    /\ ModuleIdle
    /\ CronIdle

\* one call of check_conditions(order); found keeps the list of atom
\* results it built and what it returned
CheckConditions(id) ==
    /\ found' = [turn |-> ~found.turn,
                 results |-> atom_results(cond_orders[id], cond_now, price_cache),
                 value |-> check_conditions(cond_orders[id], cond_now, price_cache)]
    /\ UNCHANGED <<cond_orders, engine_orders, price_cache, cond_now, iceberg>>
    /\ CondOnly

NextAtoms ==
    \/ \E price \in CachedPrices : update_price("a", price)
    \/ CondTick
    \/ \E id \in DOMAIN cond_orders : CheckConditions(id)

SpecAtoms == InitAtoms /\ [][NextAtoms]_vars

NoCachedPrice(condition, cache) ==
    /\ condition.type \in {"price_ge", "price_lt"}
    /\ condition.instrument \notin DOMAIN cache

\* C33: check_conditions evaluates every atom of the order, in order and
\* without stopping early, and returns the conjunction of the atom
\* results for AND and their disjunction for OR; an atom on an instrument
\* that has no cached price and an atom whose evaluation raises count as
\* false.
C33_EveryAtomEvaluatedThenCombined ==
    [][found'.turn /= found.turn =>
          LET co == cond_orders["c1"]
              results == found'.results
          IN  /\ Len(results) = Len(co.conditions)
              /\ \A i \in DOMAIN results :
                     /\ results[i] = _check_single_condition(
                                         co.conditions[i], cond_now, price_cache)
                     /\ (\/ NoCachedPrice(co.conditions[i], price_cache)
                         \/ Raises(co.conditions[i], price_cache))
                           => ~results[i]
              /\ co.condition_logic = "AND"
                    => found'.value = (\A i \in DOMAIN results : results[i])
              /\ co.condition_logic = "OR"
                    => found'.value = (\E i \in DOMAIN results : results[i])]_vars

\* an AND order whose first atom raises: the second atom, which holds on
\* the cached price, was evaluated all the same, and the call returned
\* False
C33_Witness ==
    /\ "results" \in DOMAIN found
    /\ cond_orders["c1"].conditions = <<PriceUnparsable, PriceGE>>
    /\ cond_orders["c1"].condition_logic = "AND"
    /\ price_cache = [code \in {"a"} |-> 100]
    /\ found.results = <<FALSE, TRUE>>
    /\ found.value = FALSE


\* ======================================================================
\* AlgoEngine: the price of a slice (trade/algorithm.py)
\* ======================================================================
\* Prices are in units of 1/10000 of the reference scale, so that the
\* spread of _get_order_book (0.02% of the price) is a whole number.

Sides == {"buy", "sell"}
AlgoKinds == {"twap", "vwap", "snapshot"}
ReferencePrices == {0, 5000, 10000, 15000}        \* 0: no DailyBar
PriceLimits == {NoneDecimal, 0, 9999, 10002, 20000}

\* `if order.price_limit:` - None and Decimal('0') are both false
Truthy(d) == d /= NoneDecimal /\ d /= 0

\* _get_order_book: (bid, ask) around the current price
_get_order_book(current_price) ==
    LET spread == (current_price * 2) \div 10000
    IN  IF current_price > 0
        THEN [bid |-> current_price - spread, ask |-> current_price + spread]
        ELSE [bid |-> 0, ask |-> 0]

\* the price a slice starts from: the current price, or the touch
reference_price(algo, side, current_price) ==
    IF algo = "snapshot"
    THEN IF side = "buy" THEN _get_order_book(current_price).ask
         ELSE _get_order_book(current_price).bid
    ELSE current_price

\* A variant that clips a buy from below and a sell from above.
apply_price_limit_swapped(side, price, price_limit) ==
    IF Truthy(price_limit)
    THEN IF side = "buy" THEN Max(price, price_limit) ELSE Min(price, price_limit)
    ELSE price

\* lines 156-166, 225-229, 284-289
apply_price_limit(side, price, price_limit) ==
    IF Truthy(price_limit)
    THEN IF side = "buy" THEN Min(price, price_limit) ELSE Max(price, price_limit)
    ELSE price

InitClip ==
    /\ ContainerIdle
    /\ order \in [side : Sides, price_limit : PriceLimits]
    /\ frame \in [pc : {"new"}, algo : AlgoKinds]
    /\ aclock = 0
    /\ registered = FALSE
    /\ slices = <<>>
    /\ clean = TRUE
    /\ RiskIdle
    /\ StopIdle
    /\ ModuleIdle
    /\ CronIdle
    /\ CondIdle

\* one slice: the reference price is read, clipped and handed to _place_order
PlaceSlice(current_price) ==
    /\ frame.pc = "new"
    /\ LET reference == reference_price(frame.algo, order.side, current_price)
       IN  slices' = Append(slices,
                            [reference |-> reference,
                             price |-> apply_price_limit(order.side, reference,
                                                         order.price_limit)])
    /\ frame' = [frame EXCEPT !.pc = "placed"]
    /\ UNCHANGED <<order, aclock, registered, clean>>
    /\ AlgoOnly

NextClip == \E current_price \in ReferencePrices : PlaceSlice(current_price)

SpecClip == InitClip /\ [][NextClip]_vars

ClippedAsClaimed(side, slice, price_limit) ==
    IF side = "buy"
    THEN slice.price = Min(slice.reference, price_limit) /\ slice.price <= price_limit
    ELSE slice.price = Max(slice.reference, price_limit) /\ slice.price >= price_limit

\* C21: for an AlgoOrder with a price limit, every slice placed by
\* execute_twap, execute_vwap or execute_snapshot has price min(reference
\* price, limit) for a buy and max(reference price, limit) for a sell: no buy
\* slice is placed above the limit and no sell slice below it.
C21_SlicePriceWithinLimit ==
    order.price_limit /= NoneDecimal
       => \A i \in 1..Len(slices) :
              ClippedAsClaimed(order.side, slices[i], order.price_limit)

\* The same for the limits the code takes as a limit (not Decimal('0')).
C21_SlicePriceWithinNonZeroLimit ==
    Truthy(order.price_limit)
       => \A i \in 1..Len(slices) :
              ClippedAsClaimed(order.side, slices[i], order.price_limit)

\* A buy with price_limit Decimal('0') placed at the reference price.
C21_ZeroLimitIgnored ==
    /\ order.side = "buy"
    /\ order.price_limit = 0
    /\ slices /= <<>>
    /\ slices[1].price = 10000

\* A snapshot buy clipped from the ask 10002 down to its limit 9999.
C21_ClippedBuy ==
    /\ order.side = "buy"
    /\ order.price_limit = 9999
    /\ frame.algo = "snapshot"
    /\ slices = <<[reference |-> 10002, price |-> 9999]>>


\* ======================================================================
\* CallbackFunctionContainer and RegisterCallback (utils/func_container.py)
\* ======================================================================
\* A function object is the map of its attributes.  An attribute name is
\* the pair of its first four characters, when they are 'arg_', and the
\* rest: <<"arg_", "channel">> is arg_channel, <<"", "__doc__">> is
\* __doc__.  Beside the attributes a method carries the history of the
\* RegisterCallback annotations put on it, innermost first.

MaxDecorators == 2     \* RegisterCallback annotations stacked on one method

MethodNames == {"on_message", "on_timer"}
KeywordArguments ==
    {<<>>, [channel |-> "MSG:*"], [crontab |-> "* * * * *"],
     [channel |-> "MSG:*", crontab |-> "0 9 * * *"]}

IsCallbackFunction == <<"", "is_callback_function">>

\* def name(self, ...): a function with no attribute of its own
PlainFunction == [a \in {<<"", "__doc__">>} |-> "None"]

\* variant: the wrapper does not take over the attributes of func
RegisterCallback_fresh_wrapper(out_kwargs, func) ==
    (IsCallbackFunction :> "True")
    @@ [a \in {<<"arg_", key>> : key \in DOMAIN out_kwargs} |-> out_kwargs[a[2]]]
    @@ PlainFunction

\* RegisterCallback(**out_kwargs)(func): wraps(func) copies the attributes
\* of func to the wrapper, then arg_<key> and is_callback_function are set
RegisterCallback(out_kwargs, func) ==
    (IsCallbackFunction :> "True")
    @@ [a \in {<<"arg_", key>> : key \in DOMAIN out_kwargs} |-> out_kwargs[a[2]]]
    @@ func

\* variant: every method gets an entry
_collect_all_every_method(class_body) ==
    [fun_name \in DOMAIN class_body |->
        LET fun == class_body[fun_name].attrs
            args == {arg \in DOMAIN fun : arg[1] = "arg_"}
        IN  [key \in {arg[2] : arg \in args} |-> fun[<<"arg_", key>>]]]

\* _collect_all: for every name of dir(self) whose value has
\* is_callback_function, the attributes that start with arg_, keyed by
\* the rest of their name
_collect_all(class_body) ==
    [fun_name \in {n \in DOMAIN class_body :
                      IsCallbackFunction \in DOMAIN class_body[n].attrs} |->
        LET fun == class_body[fun_name].attrs
            args == {arg \in DOMAIN fun : arg[1] = "arg_"}
        IN  [key \in {arg[2] : arg \in args} |-> fun[<<"arg_", key>>]]]

\* the class body of CallbackFunctionContainer itself
InitCollect ==
    /\ methods = [n \in {"_collect_all"} |->
                     [attrs |-> PlainFunction, annotations |-> <<>>]]
    /\ constructed = FALSE
    /\ ModuleIdle
    /\ RiskIdle
    /\ AlgoIdle
    /\ StopIdle
    /\ CronIdle
    /\ CondIdle

\* def fun_name(self, ...) in the class body
Def(fun_name) ==
    /\ ~constructed
    /\ fun_name \notin DOMAIN methods
    /\ methods' = [n \in DOMAIN methods \cup {fun_name} |->
                      IF n = fun_name
                      THEN [attrs |-> PlainFunction, annotations |-> <<>>]
                      ELSE methods[n]]
    /\ UNCHANGED constructed
    /\ ContainerOnly

\* @RegisterCallback(**out_kwargs) put on the method
Decorate(fun_name, out_kwargs) ==
    /\ ~constructed
    /\ fun_name \in DOMAIN methods
    /\ Len(methods[fun_name].annotations) < MaxDecorators
    /\ methods' = [methods EXCEPT
                      ![fun_name].attrs = RegisterCallback(out_kwargs, @),
                      ![fun_name].annotations = Append(@, out_kwargs)]
    /\ UNCHANGED constructed
    /\ ContainerOnly

\* CallbackFunctionContainer.__init__
Construct ==
    /\ ~constructed
    /\ constructed' = TRUE
    /\ callback_fun_args' = _collect_all(methods)
    /\ UNCHANGED <<methods, initialized, channel_router, crontab_router,
                   scheduled, coroutines, subscription, calls, tasks>>
    /\ UNCHANGED <<riskVars, algoVars, stopVars, cronVars, condVars>>

NextCollect ==
    \/ \E fun_name \in MethodNames : Def(fun_name)
    \/ \E fun_name \in MethodNames, out_kwargs \in KeywordArguments :
          Decorate(fun_name, out_kwargs)
    \/ Construct

SpecCollect == InitCollect /\ [][NextCollect]_vars

\* the keyword arguments of a stack of annotations: an outer annotation
\* overrides the same key of an inner one
RECURSIVE Supplied(_)
Supplied(annotations) ==
    IF annotations = <<>> THEN <<>>
    ELSE annotations[Len(annotations)]
            @@ Supplied(SubSeq(annotations, 1, Len(annotations) - 1))

\* C26: after construction callback_fun_args maps the name of every
\* method decorated with RegisterCallback(**kwargs) to exactly the keyword
\* arguments supplied in the annotation (for annotations stacked on one
\* method: the arguments of all of them, the outer one winning on a key
\* given twice), and a method that is not decorated has no entry.
C26_CollectedArgumentsAreTheAnnotated ==
    constructed =>
        /\ DOMAIN callback_fun_args \subseteq DOMAIN methods
        /\ \A fun_name \in DOMAIN methods :
              LET annotations == methods[fun_name].annotations
              IN  /\ annotations = <<>>
                        => fun_name \notin DOMAIN callback_fun_args
                  /\ annotations # <<>>
                        => /\ fun_name \in DOMAIN callback_fun_args
                           /\ callback_fun_args[fun_name] = Supplied(annotations)
                  /\ Len(annotations) = 1
                        => callback_fun_args[fun_name] = annotations[1]

\* one method annotated with channel=, one with crontab=, the inherited
\* method with none
C26_Witness ==
    /\ constructed
    /\ DOMAIN methods = {"_collect_all", "on_message", "on_timer"}
    /\ methods["on_message"].annotations = <<[channel |-> "MSG:*"]>>
    /\ methods["on_timer"].annotations = <<[crontab |-> "* * * * *"]>>
    /\ DOMAIN callback_fun_args = {"on_message", "on_timer"}
    /\ callback_fun_args["on_message"] = [channel |-> "MSG:*"]
    /\ callback_fun_args["on_timer"] = [crontab |-> "* * * * *"]

\* crontab= put on top of channel= and crontab=: the entry has the channel
\* of the inner and the crontab of the outer annotation
C26_StackedWitness ==
    /\ constructed
    /\ "on_timer" \in DOMAIN methods
    /\ methods["on_timer"].annotations
          = <<[channel |-> "MSG:*", crontab |-> "0 9 * * *"],
              [crontab |-> "* * * * *"]>>
    /\ callback_fun_args["on_timer"]
          = [channel |-> "MSG:*", crontab |-> "* * * * *"]
====
